---- MODULE Spec2Model ----
(***************************************************************************)
(* The tool-calling orchestration loop of the editor assistant:            *)
(* Agent.chat / Agent.callLLM / Agent.stop / Agent.saveCurrentThread and   *)
(* the thread lifecycle operations (src/src/agent.ts), the durable thread  *)
(* store (class Storage, src/src/safety.ts) and the inbound request        *)
(* handlers of ChatViewProvider (src/src/chatViewProvider.ts).             *)
(*                                                                         *)
(* chat() is an async function: it runs synchronously up to an await and   *)
(* is resumed by the event loop.  Every action below is one such           *)
(* synchronous segment, from one resumption to the next suspension.        *)
(***************************************************************************)
EXTENDS Integers, Sequences, FiniteSets, TLC

\* ------------------------------------------------------------------ bounds
MaxRequests == 2     \* send and thread lifecycle requests per behaviour
MaxVariedRounds == 1 \* leading rounds of a chat in which the endpoint's answer is arbitrary
MaxEarlierCalls == 1 \* LLM calls made so far when a further chat() is requested
MaxOverlapCalls == 4 \* LLM calls per behaviour once two chats have overlapped
MaxToolRounds == 2   \* rounds of an exchange in which the endpoint asks for a tool call

\* ------------------------------------------------------- program constants
MaxIterations == 15

Chats == 1..MaxRequests

VARIABLES
    messages,        \* Agent.messages, the live transcript
    currentThread,   \* Agent.currentThread (NoThread models null)
    threads,         \* Storage: thread id -> persisted Thread (threads/<id>.json)
    nextThreadId,    \* source of Storage.generateThreadId (ids never repeat)
    threadChanged,   \* last value handed to onThreadChange (-1: never called, 0: null)
    autoSave,        \* configuration option ai-agent.autoSave, read on every save
    abortController, \* Agent.abortController: <<chat, call>> that created it, None if unset
    aborted,         \* aborted[c]: the signal of c's in-flight fetch has been aborted
    timers,          \* armed timeout timers, each named by the call <<chat, call>> that set it
    pc,              \* position of each chat() invocation
    iter,            \* loop variable i of each chat()
    calls,           \* number of callLLM() invocations made by each chat()
    pending,         \* msg.tool_calls of the round a chat is executing
    tcIdx,           \* index in pending of the tool call whose executeTool is awaited
    log,             \* notifications sent through this.log, counted per chat and kind
    saveCalls,       \* number of saveCurrentThread() invocations made by each chat()
    exitTranscript,  \* the live transcript as each chat() left its loop, before any save
    lastRes,         \* the response each chat received last
    onlyTools,       \* every response a chat received so far carried a tool call
    lastAbort,       \* who issued the last abort(), and which call it hit
    overlapped,      \* two chat() invocations have been active at the same time
    requests,        \* number of send and thread lifecycle requests delivered
    files,           \* the file system: absolute path -> file (content bytes, mtime)
    backups,         \* the copies held in Safety.backupDir, by backup name
    changeHistory,   \* Safety.changeHistory
    shell,           \* the commands run_command handed to cp.execSync, in order
    backupBeforeWrite,  \* configuration option ai-agent.backupBeforeWrite
    confirmBeforeWrite, \* configuration option ai-agent.confirmBeforeWrite
    cache,           \* Cache.cache: key -> CacheEntry
    now,             \* Date.now(), in milliseconds
    lastTool,        \* the tool call executeTool() ran last, its checks, effects and result
    lastGet,         \* the cache call made last and what it returned
    fileIndex,       \* Cache.fileIndex: lower-cased basename -> paths, in insertion order
    lastFind,        \* the call on the file index made last and what it returned
    lastRequest,     \* the thread lifecycle or stop request handled last and what it returned
    reading,         \* the read_file call that has read its file and not yet cached it
    dropped,         \* how many entries the change history has dropped, being full
    memory,          \* Storage: the file .ai-agent/memory.json
    projectTree,     \* Cache.projectTree and Cache.projectTreeTimestamp
    lastTree,        \* the call on the project tree made last, and what preceded it
    diffing          \* Safety.generateDiff: its arguments, its locals and what it returned

vars == <<messages, currentThread, threads, nextThreadId, threadChanged, autoSave,
          abortController, aborted, timers, pc, iter, calls, pending, tcIdx, log,
          saveCalls, exitTranscript, lastRes, onlyTools, lastAbort, overlapped,
          requests, files, backups, changeHistory, shell, backupBeforeWrite,
          confirmBeforeWrite, cache, now, lastTool, lastGet, fileIndex, lastFind,
          lastRequest, reading, dropped, memory, projectTree, lastTree, diffing>>

treeVars == <<projectTree, lastTree>>
chatVars == <<pc, iter, calls, pending, tcIdx, log, saveCalls, exitTranscript, lastRes, onlyTools>>
threadVars == <<currentThread, threads, nextThreadId, threadChanged>>
abortVars == <<abortController, aborted, timers, lastAbort>>
diskVars == <<files, backups, changeHistory, shell, backupBeforeWrite, confirmBeforeWrite,
              lastTool, cache, now, lastGet, fileIndex, lastFind, dropped, memory, treeVars, diffing>>
worldVars == <<diskVars, lastRequest, reading>>

\* ---------------------------------------------------------------- messages
None == <<0, 0>>
NoThread == [id |-> 0, title |-> "", messages |-> <<>>]

Message(role, content, tool_calls, tool_call_id) ==
    [role |-> role, content |-> content, tool_calls |-> tool_calls,
     tool_call_id |-> tool_call_id]

ToolCall(id) == [id |-> id, name |-> "list_files"]

SystemMessage == Message("system", "SYSTEM_PROMPT", <<>>, 0)

initMessages == <<SystemMessage>>

UserText(c) == "user text " \o ToString(c)

UserMessage(text) == Message("user", text, <<>>, 0)

AssistantMessage(res) == Message("assistant", res.content, res.tool_calls, 0)

ToolResultMessageWrongId(tc, result) == Message("tool", result, <<>>, tc.id + 1)

ToolResultMessage(tc, result) == Message("tool", result, <<>>, tc.id)

AppendToolResultDropped(msgs, tc, result) == msgs

AppendToolResult(msgs, tc, result) == Append(msgs, ToolResultMessage(tc, result))

\* --------------------------------------------------------- LLM responses
Response(ok, error, msg, tool_calls, content) ==
    [ok |-> ok, error |-> error, msg |-> msg, tool_calls |-> tool_calls,
     content |-> content]

PlainToolResponse == Response(TRUE, FALSE, TRUE, <<ToolCall(1)>>, "")

VariedResponses ==
    { Response(TRUE, FALSE, TRUE, <<ToolCall(1), ToolCall(2)>>, ""),
      Response(TRUE, FALSE, TRUE, <<ToolCall(2)>>, "thinking"),
      Response(TRUE, FALSE, TRUE, <<>>, ""),
      Response(TRUE, FALSE, FALSE, <<>>, "") }

EndingResponses ==
    { Response(TRUE, FALSE, TRUE, <<>>, "Done"),
      Response(TRUE, TRUE, TRUE, <<>>, ""),
      Response(FALSE, FALSE, FALSE, <<>>, "") }

Responses == {PlainToolResponse} \cup VariedResponses \cup EndingResponses

NoResponse == Response(FALSE, FALSE, FALSE, <<>>, "none yet")

ClassifyEmptyAsContent(res) ==
    IF ~res.ok THEN "throw"
    ELSE IF res.error THEN "error"
    ELSE IF ~res.msg THEN "skip"
    ELSE IF Len(res.tool_calls) > 0 THEN "tools"
    ELSE "content"

Classify(res) ==
    IF ~res.ok THEN "throw"
    ELSE IF res.error THEN "error"
    ELSE IF ~res.msg THEN "skip"
    ELSE IF Len(res.tool_calls) > 0 THEN "tools"
    ELSE IF res.content # "" THEN "content"
    ELSE "skip"

LoopContinues(i) == i < MaxIterations

ExitSavesAlways(note) == TRUE

ExitSaves(note) == note \in {"stopped", "content", "max"}

ClearTimeoutMissing(tm, id) == tm

ClearTimeout(tm, id) == tm \ {id}

Notes == {"connecting", "content", "error", "stopped", "max"}

NoAbort == [by |-> "none", timer |-> None, target |-> None]

\* ------------------------------------------------------ strings (String.prototype)
charAt(s, i) == SubSeq(s, i, i)

startsWith(s, p) == Len(p) <= Len(s) /\ SubSeq(s, 1, Len(p)) = p

endsWith(s, p) == Len(p) <= Len(s) /\ SubSeq(s, Len(s) - Len(p) + 1, Len(s)) = p

includes(s, p) == \E i \in 1..(Len(s) - Len(p) + 1) : SubSeq(s, i, i + Len(p) - 1) = p

RECURSIVE split(_, _)
split(s, sep) ==
    IF \A i \in 1..Len(s) : charAt(s, i) # sep THEN <<s>>
    ELSE LET i == CHOOSE j \in 1..Len(s) :
                      charAt(s, j) = sep /\ \A l \in 1..(j - 1) : charAt(s, l) # sep
         IN  <<SubSeq(s, 1, i - 1)>> \o split(SubSeq(s, i + 1, Len(s)), sep)

RECURSIVE join(_, _)
join(segs, sep) ==
    IF segs = <<>> THEN ""
    ELSE IF Len(segs) = 1 THEN segs[1]
    ELSE segs[1] \o sep \o join(Tail(segs), sep)

Whitespace == {" ", "\t", "\n", "\r"}

RECURSIVE trim(_)
trim(s) ==
    IF s # "" /\ charAt(s, 1) \in Whitespace THEN trim(SubSeq(s, 2, Len(s)))
    ELSE IF s # "" /\ charAt(s, Len(s)) \in Whitespace THEN trim(SubSeq(s, 1, Len(s) - 1))
    ELSE s

toLowerCase(ch) ==
    LET UpperCase == "ABCDEFGHIJKLMNOPQRSTUVWXYZ"
        LowerCase == "abcdefghijklmnopqrstuvwxyz"
    IN  IF \E k \in 1..Len(UpperCase) : charAt(UpperCase, k) = ch
        THEN charAt(LowerCase, CHOOSE k \in 1..Len(UpperCase) : charAt(UpperCase, k) = ch)
        ELSE ch

\* ------------------------------------------------------ paths (node:path, POSIX)
isAbsolute(p) == startsWith(p, "/")

\* the segments of a path with '.', '' and resolvable '..' taken out
RECURSIVE normalizeSegments(_, _, _)
normalizeSegments(segs, out, abs) ==
    IF segs = <<>> THEN out
    ELSE LET h == Head(segs)
             t == Tail(segs)
         IN  IF h = "" \/ h = "." THEN normalizeSegments(t, out, abs)
             ELSE IF h # ".." THEN normalizeSegments(t, Append(out, h), abs)
             ELSE IF out # <<>> /\ out[Len(out)] # ".."
                  THEN normalizeSegments(t, SubSeq(out, 1, Len(out) - 1), abs)
             ELSE IF abs THEN normalizeSegments(t, out, abs)
             ELSE normalizeSegments(t, Append(out, ".."), abs)

\* path.join(a, b): the two joined by a separator and normalized; a trailing
\* separator is kept
pathJoin(a, b) ==
    LET p == IF a = "" THEN b ELSE IF b = "" THEN a ELSE a \o "/" \o b
        abs == isAbsolute(p)
        body == join(normalizeSegments(split(p, "/"), <<>>, abs), "/")
        tail == IF body # "" /\ endsWith(p, "/") THEN "/" ELSE ""
    IN  IF abs THEN "/" \o body \o tail
        ELSE IF body = "" THEN (IF endsWith(p, "/") THEN "./" ELSE ".")
        ELSE body \o tail

\* path.resolve(p): absolute, normalized, without a trailing separator
resolve(p) ==
    LET cwd == "/"
        full == IF isAbsolute(p) THEN p ELSE cwd \o "/" \o p
    IN  "/" \o join(normalizeSegments(split(full, "/"), <<>>, TRUE), "/")

segments(p) == normalizeSegments(split(p, "/"), <<>>, TRUE)

RECURSIVE commonLen(_, _)
commonLen(a, b) ==
    IF a = <<>> \/ b = <<>> \/ Head(a) # Head(b) THEN 0
    ELSE 1 + commonLen(Tail(a), Tail(b))

\* path.relative(from, to)
relative(from, to) ==
    LET f == segments(resolve(from))
        t == segments(resolve(to))
        k == commonLen(f, t)
    IN  join([i \in 1..(Len(f) - k) |-> ".."] \o SubSeq(t, k + 1, Len(t)), "/")

dirname(p) == LET s == segments(p) IN "/" \o join(SubSeq(s, 1, Len(s) - 1), "/")

basename(p) == LET s == segments(p) IN IF s = <<>> THEN "" ELSE s[Len(s)]

\* ------------------------------------------------------ regular expressions (RegExp)
Chars(set) == [op |-> "set", set |-> set]
Dot == [op |-> "any"]
Bol == [op |-> "bol"]
Eol == [op |-> "eol"]
Cat(items) == [op |-> "seq", items |-> items]
Alt(items) == [op |-> "alt", items |-> items]
Star(r) == [op |-> "star", of |-> r]
Opt(r) == [op |-> "opt", of |-> r]
Plus(r) == Cat(<<r, Star(r)>>)
Lit(s) == Cat([k \in 1..Len(s) |-> Chars({charAt(s, k)})])
RegExp(r, ci) == [r |-> r, i |-> ci]

RECURSIVE ends(_, _, _, _)
RECURSIVE closure(_, _, _, _)
\* the positions at which a match of r that starts at position i of s can end;
\* ci is the i flag
ends(r, s, i, ci) ==
    CASE r.op = "set" ->
            IF i <= Len(s) /\ (IF ci THEN toLowerCase(charAt(s, i)) ELSE charAt(s, i)) \in r.set
            THEN {i + 1} ELSE {}
      [] r.op = "any" -> IF i <= Len(s) /\ charAt(s, i) \notin {"\n", "\r"} THEN {i + 1} ELSE {}
      [] r.op = "bol" -> IF i = 1 THEN {i} ELSE {}
      [] r.op = "eol" -> IF i = Len(s) + 1 THEN {i} ELSE {}
      [] r.op = "seq" ->
            IF r.items = <<>> THEN {i}
            ELSE UNION {ends(Cat(Tail(r.items)), s, j, ci) : j \in ends(Head(r.items), s, i, ci)}
      [] r.op = "alt" -> UNION {ends(r.items[k], s, i, ci) : k \in 1..Len(r.items)}
      [] r.op = "opt" -> {i} \cup ends(r.of, s, i, ci)
      [] r.op = "star" -> closure(r.of, s, {i}, ci)

closure(r, s, from, ci) ==
    LET more == from \cup UNION {ends(r, s, j, ci) : j \in from}
    IN  IF more = from THEN from ELSE closure(r, s, more, ci)

\* RegExp.prototype.test
test(re, s) == \E i \in 1..(Len(s) + 1) : ends(re.r, s, i, re.i) # {}

\* ------------------------------------------------------ text and bytes
\* A string, or the byte content of a file, is n repetitions of a unit, so that
\* a file of a mebibyte is a value of the model.  Bytes are written in Latin-1
\* notation, one character a byte; every byte above 7F of the model's files is
\* either a lone FF or part of the sequence EF BF BD.
Rep(unit, n) == IF unit = "" \/ n = 0 THEN [unit |-> "", n |-> 0] ELSE [unit |-> unit, n |-> n]

Text(s) == Rep(s, 1)

null == [null |-> TRUE]

undefined == [undefined |-> TRUE]

\* a number, as a value that may also be undefined
Num(k) == [num |-> k]

\* String.prototype.length, and the size in bytes of a content
length(t) == Len(t.unit) * t.n

ReplacementCharacter == "�"
ReplacementBytes == "ï¿½"

\* the utf-8 decoder: a byte sequence that is not valid utf-8 becomes U+FFFD
RECURSIVE decodeUtf8(_)
decodeUtf8(b) ==
    IF b = "" THEN ""
    ELSE IF startsWith(b, ReplacementBytes)
         THEN ReplacementCharacter \o decodeUtf8(SubSeq(b, 4, Len(b)))
    ELSE IF charAt(b, 1) \in {"ÿ", "ï", "¿", "½"}
         THEN ReplacementCharacter \o decodeUtf8(SubSeq(b, 2, Len(b)))
    ELSE charAt(b, 1) \o decodeUtf8(SubSeq(b, 2, Len(b)))

RECURSIVE encodeUtf8(_)
encodeUtf8(s) ==
    IF s = "" THEN ""
    ELSE (IF charAt(s, 1) = ReplacementCharacter THEN ReplacementBytes ELSE charAt(s, 1))
         \o encodeUtf8(SubSeq(s, 2, Len(s)))

\* ------------------------------------------------------ the file system (node:fs)
workspaceRoot == "/ws"

\* the paths at which the model holds or may create a file, in directory order
FilePaths == <<"/etc/passwd", "/ws/.ai-agent/backups", "/ws/.git/config", "/ws/a.txt",
               "/ws/big.log", "/ws/logo.png", "/ws/max.log", "/ws/new.txt">>

\* the directories, in directory order; Safety.backupDir is one once a backup was made
Dirs == <<"/", "/etc", "/ws", "/ws/.ai-agent", "/ws/.git">>

File(content, mtime) == [exists |-> TRUE, content |-> content, mtime |-> mtime]

NoFile == [exists |-> FALSE, content |-> Rep("", 0), mtime |-> 0]

Range(seq) == {seq[k] : k \in 1..Len(seq)}

backupDir == pathJoin(workspaceRoot, pathJoin(".ai-agent", "backups"))

isFile(fs, p) == resolve(p) \in Range(FilePaths) /\ fs[resolve(p)].exists

isDirectory(p) == resolve(p) \in Range(Dirs) \/ (resolve(p) = backupDir /\ backups # {})

existsSync(fs, p) == isFile(fs, p) \/ isDirectory(p)

\* fs.readFileSync(p, 'utf-8') of a file
readFileSync(fs, p) ==
    LET c == fs[resolve(p)].content IN Rep(decodeUtf8(c.unit), c.n)

\* fs.writeFileSync(p, content, 'utf-8') of a path that is no directory
writeFileSync(fs, p, content) ==
    [fs EXCEPT ![resolve(p)] = File(Rep(encodeUtf8(content.unit), content.n), now)]

unlinkSync(fs, p) == [fs EXCEPT ![resolve(p)] = NoFile]

\* fs.readdirSync(dir): the names of the entries of a directory
readdirSync(fs, dir) ==
    LET all == FilePaths \o Dirs
        in(p) == p # "/" /\ dirname(p) = resolve(dir) /\ existsSync(fs, p)
        here == SelectSeq(all, in)
    IN  [k \in 1..Len(here) |-> basename(here[k])]

\* ------------------------------------------------------ Safety (src/src/safety.ts)
\* generateDiff: oldLines, newLines, i, j and diff while the loop runs (pc is
\* "loop"), then the positions in diff that the filter kept and the string
\* returned (pc is "returned")
Diff(at, oldLines, newLines, i, j, diff, kept, out) ==
    [pc |-> at, oldLines |-> oldLines, newLines |-> newLines, i |-> i, j |-> j,
     diff |-> diff, kept |-> kept, out |-> out]

NoDiff == Diff("idle", <<>>, <<>>, 0, 0, <<>>, <<>>, "")

\* one round of the while loop of generateDiff
generateDiffStep(d) ==
    LET old(x) == d.oldLines[x + 1]
        new(x) == d.newLines[x + 1]
        i == d.i
        j == d.j
        inOld(k) == i + k < Len(d.oldLines) /\ old(i + k) = new(j)
        inNew(k) == j + k < Len(d.newLines) /\ old(i) = new(j + k)
        found == {k \in 1..3 : inOld(k) \/ inNew(k)}
        first == CHOOSE k \in found : \A l \in found : k <= l
    IN  IF i >= Len(d.oldLines)
        THEN [d EXCEPT !.diff = Append(@, "+" \o new(j)), !.j = j + 1]
        ELSE IF j >= Len(d.newLines)
        THEN [d EXCEPT !.diff = Append(@, "-" \o old(i)), !.i = i + 1]
        ELSE IF old(i) = new(j)
        THEN [d EXCEPT !.diff = Append(@, " " \o old(i)), !.i = i + 1, !.j = j + 1]
        ELSE IF found = {}
        THEN [d EXCEPT !.diff = @ \o <<"-" \o old(i), "+" \o new(j)>>,
                       !.i = i + 1, !.j = j + 1]
        ELSE IF inOld(first)
        THEN [d EXCEPT !.diff = @ \o [m \in 1..first |-> "-" \o old(i + m - 1)],
                       !.i = i + first]
        ELSE [d EXCEPT !.diff = @ \o [m \in 1..first |-> "+" \o new(j + m - 1)],
                       !.j = j + first]

\* the positions (from 0) of the lines that the filter of generateDiff keeps
keptWithin(diff, around) ==
    LET keeps(idx) ==
            \/ idx < 2
            \/ ~startsWith(diff[idx + 1], " ")
            \/ \E p \in 0..(Len(diff) - 1) :
                  /\ p >= (IF idx - around > 2 THEN idx - around ELSE 2)
                  /\ p < (IF Len(diff) < idx + around + 1 THEN Len(diff) ELSE idx + around + 1)
                  /\ startsWith(diff[p + 1], "+") \/ startsWith(diff[p + 1], "-")
        upTo[n \in 0..Len(diff)] ==
            IF n = 0 THEN <<>>
            ELSE IF keeps(n - 1) THEN Append(upTo[n - 1], n - 1) ELSE upTo[n - 1]
    IN  upTo[Len(diff)]

\* a filter that keeps the unchanged lines within three lines of a changed one
filterDiffWider(diff) == keptWithin(diff, 3)

\* diff.filter((line, idx) => ...) of generateDiff
filterDiff(diff) == keptWithin(diff, 2)

\* the return statement of generateDiff
generateDiffReturn(d) ==
    LET kept == filterDiff(d.diff)
        filteredDiff == [k \in 1..Len(kept) |-> d.diff[kept[k] + 1]]
        first50 == SubSeq(filteredDiff, 1, IF Len(filteredDiff) < 50 THEN Len(filteredDiff) ELSE 50)
    IN  [d EXCEPT !.pc = "returned", !.kept = kept,
                  !.out = join(first50, "\n") \o
                          (IF Len(filteredDiff) > 50 THEN "\n... (truncated)" ELSE "")]

maxHistorySize == 50
maxFileSize == 1024 * 1024

Safe == [safe |-> TRUE, reason |-> ""]

Unsafe(reason) == [safe |-> FALSE, reason |-> reason]

dangerous == <<".git", "node_modules/.bin", ".env", ".env.local", ".env.production">>

\* a check of the spelling of the path, without resolving it
isPathSafeBySpelling(filePath) ==
    IF ~startsWith(filePath, workspaceRoot) THEN Unsafe("Path is outside workspace")
    ELSE IF includes(filePath, "/.git") THEN Unsafe("Cannot modify .git directory")
    ELSE Safe

isPathSafe(filePath) ==
    LET resolved == resolve(filePath)
        rel == relative(workspaceRoot, resolved)
    IN  IF startsWith(rel, "..") \/ isAbsolute(rel) THEN Unsafe("Path is outside workspace")
        ELSE IF \E k \in 1..Len(dangerous) :
                    /\ \/ startsWith(rel, dangerous[k])
                       \/ includes(rel, "/" \o dangerous[k])
                       \/ includes(rel, "\\" \o dangerous[k])
                    /\ dangerous[k] = ".git"
             THEN Unsafe("Cannot modify .git directory")
        ELSE Safe

dangerousCommands ==
    LET S == Chars(Whitespace)
        Slash == Chars({"/", "\\"})
        Letters == Chars({charAt("abcdefghijklmnopqrstuvwxyz", k) : k \in 1..26})
    IN  <<
        RegExp(Cat(<<Bol, Lit("rm"), Plus(S),
                     Alt(<<Cat(<<Lit("-r"), Opt(Lit("f"))>>), Lit("--recursive")>>),
                     Star(Dot), Slash, Eol>>), TRUE),
        RegExp(Cat(<<Bol, Lit("rm"), Plus(S), Lit("-r"), Opt(Lit("f")), Star(S), Slash, Eol>>), TRUE),
        RegExp(Alt(<<Cat(<<Bol, Lit("del"), Plus(S), Slash, Lit("*")>>),
                     Cat(<<Bol, Lit("del"), Plus(S), Lit("*.*")>>)>>), TRUE),
        RegExp(Cat(<<Bol, Lit("format"), Plus(S), Letters, Lit(":")>>), TRUE),
        RegExp(Cat(<<Bol, Lit("mkfs")>>), TRUE),
        RegExp(Cat(<<Bol, Lit("dd"), Plus(S), Star(Dot), Lit("of=")>>), TRUE),
        RegExp(Cat(<<Bol, Lit(":()"), Star(S), Lit("{"), Star(S), Lit(":|:"), Star(S), Lit("&"),
                     Star(S), Lit("}")>>), FALSE),
        RegExp(Cat(<<Bol, Lit("chmod"), Plus(S), Opt(Cat(<<Lit("-r"), Plus(S)>>)), Lit("777"),
                     Plus(S), Slash>>), TRUE),
        RegExp(Cat(<<Bol, Lit("chown"), Plus(S), Lit("-r"), Star(Dot), Slash, Eol>>), TRUE),
        RegExp(Cat(<<Lit(">"), Star(S), Lit("/dev/sd"), Letters>>), TRUE),
        RegExp(Cat(<<Bol, Lit("shutdown")>>), TRUE),
        RegExp(Cat(<<Bol, Lit("reboot")>>), TRUE),
        RegExp(Cat(<<Bol, Lit("halt")>>), TRUE),
        RegExp(Cat(<<Bol, Lit("init"), Plus(S), Chars({"0", "6"})>>), TRUE),
        RegExp(Cat(<<Bol, Lit("pkill"), Plus(S), Lit("-9"), Plus(S), Lit("-1")>>), TRUE),
        RegExp(Cat(<<Bol, Lit("killall"), Plus(S), Lit("-9")>>), TRUE),
        RegExp(Cat(<<Bol, Lit("taskkill"), Plus(S), Lit("/f"), Plus(S), Lit("/im"), Plus(S),
                     Lit("*")>>), TRUE),
        RegExp(Cat(<<Lit("|"), Star(S), Lit("sh"), Star(S), Eol>>), TRUE),
        RegExp(Cat(<<Lit("|"), Star(S), Lit("bash"), Star(S), Eol>>), TRUE),
        RegExp(Cat(<<Lit("curl"), Star(Dot), Lit("|"), Star(S), Opt(Lit("ba")), Lit("sh")>>), TRUE),
        RegExp(Cat(<<Lit("wget"), Star(Dot), Lit("|"), Star(S), Opt(Lit("ba")), Lit("sh")>>), TRUE) >>

\* isCommandSafe without the trim of the command
isCommandSafeUntrimmed(cmd) ==
    IF \E k \in 1..Len(dangerousCommands) : test(dangerousCommands[k], cmd)
    THEN Unsafe("Blocked dangerous command pattern")
    ELSE Safe

isCommandSafe(cmd) ==
    LET trimmed == trim(cmd)
    IN  IF \E k \in 1..Len(dangerousCommands) : test(dangerousCommands[k], trimmed)
        THEN Unsafe("Blocked dangerous command pattern")
        ELSE Safe

\* (size / 1024 / 1024).toFixed(2)
toFixed2(size) ==
    LET h == (size * 200 + maxFileSize) \div (2 * maxFileSize)
    IN  ToString(h \div 100) \o "." \o ToString((h % 100) \div 10) \o ToString(h % 10)

\* checkFileSize with a limit that excludes a file of exactly the maximal size
checkFileSizeExclusive(fs, filePath) ==
    IF ~existsSync(fs, filePath) THEN [ok |-> TRUE, size |-> null, reason |-> ""]
    ELSE LET size == IF isFile(fs, filePath) THEN length(fs[resolve(filePath)].content)
                     ELSE 4096
         IN  IF size >= maxFileSize
             THEN [ok |-> FALSE, size |-> size,
                   reason |-> "File too large (" \o toFixed2(size) \o "MB > 1MB limit)"]
             ELSE [ok |-> TRUE, size |-> size, reason |-> ""]

\* checkFileSize(filePath): statSync throws for a missing path
checkFileSize(fs, filePath) ==
    IF ~existsSync(fs, filePath) THEN [ok |-> TRUE, size |-> null, reason |-> ""]
    ELSE LET size == IF isFile(fs, filePath) THEN length(fs[resolve(filePath)].content)
                     ELSE 4096
         IN  IF size > maxFileSize
             THEN [ok |-> FALSE, size |-> size,
                   reason |-> "File too large (" \o toFixed2(size) \o "MB > 1MB limit)"]
             ELSE [ok |-> TRUE, size |-> size, reason |-> ""]

\* relative.replace(/[\/\\]/g, '_')
RECURSIVE flatten(_)
flatten(s) ==
    IF s = "" THEN ""
    ELSE (IF charAt(s, 1) \in {"/", "\\"} THEN "_" ELSE charAt(s, 1))
         \o flatten(SubSeq(s, 2, Len(s)))

\* backupFile(filePath): the backup directory after the call.  copyFileSync
\* throws when backupDir is a regular file or filePath a directory; the
\* exception is caught and the call returns null.
backupFile(fs, filePath) ==
    IF ~existsSync(fs, filePath) THEN backups
    ELSE IF isFile(fs, backupDir) \/ ~isFile(fs, filePath) THEN backups
    ELSE LET name == ToString(now) \o "-" \o flatten(relative(workspaceRoot, filePath))
         IN  {b \in backups : b.name # name}
                 \cup {[name |-> name, content |-> fs[resolve(filePath)].content]}

FileChange(filePath, oldContent, newContent) ==
    [path |-> filePath, oldContent |-> oldContent, newContent |-> newContent,
     timestamp |-> now]

\* recordChange that drops the newest entry of a full history
recordChangeDropsNewest(history, filePath, oldContent, newContent) ==
    LET pushed == Append(history, FileChange(filePath, oldContent, newContent))
    IN  IF Len(pushed) > maxHistorySize THEN history ELSE pushed

recordChange(history, filePath, oldContent, newContent) ==
    LET pushed == Append(history, FileChange(filePath, oldContent, newContent))
    IN  IF Len(pushed) > maxHistorySize THEN Tail(pushed) ELSE pushed

\* undoLastChange(): the result, the file system and the history after the call
undoLastChange ==
    IF changeHistory = <<>>
    THEN [success |-> FALSE, message |-> "No changes to undo", files |-> files,
          changeHistory |-> changeHistory, touched |-> {}]
    ELSE LET last == changeHistory[Len(changeHistory)]
             popped == SubSeq(changeHistory, 1, Len(changeHistory) - 1)
         IN  IF isDirectory(last.path)
             THEN [success |-> FALSE,
                   message |-> "Undo failed: EISDIR: illegal operation on a directory",
                   files |-> files, changeHistory |-> popped, touched |-> {}]
             ELSE IF last.oldContent = null
             THEN IF existsSync(files, last.path)
                  THEN [success |-> TRUE,
                        message |-> "Deleted newly created file: " \o last.path,
                        files |-> unlinkSync(files, last.path), changeHistory |-> popped,
                        touched |-> {[op |-> "delete", path |-> last.path]}]
                  ELSE [success |-> TRUE, message |-> "Undo complete", files |-> files,
                        changeHistory |-> popped, touched |-> {}]
             ELSE [success |-> TRUE, message |-> "Restored: " \o last.path,
                   files |-> writeFileSync(files, last.path, last.oldContent),
                   changeHistory |-> popped,
                   touched |-> {[op |-> "write", path |-> last.path]}]

\* ------------------------------------------------------ Cache (src/src/cache.ts)
DefaultTtl == 60000
FileTtl == 300000

CacheEntry(value, ttl) == [value |-> value, timestamp |-> now, ttl |-> ttl]

Without(ca, key) == [k \in DOMAIN ca \ {key} |-> ca[k]]

\* get without the expiry test
getNeverExpires(ca, key) ==
    IF key \notin DOMAIN ca THEN [value |-> null, cache |-> ca]
    ELSE [value |-> ca[key].value, cache |-> ca]

\* get(key): the value returned (null on a miss) and the map after the call
get(ca, key) ==
    IF key \notin DOMAIN ca THEN [value |-> null, cache |-> ca]
    ELSE IF now - ca[key].timestamp > ca[key].ttl
         THEN [value |-> null, cache |-> Without(ca, key)]
    ELSE [value |-> ca[key].value, cache |-> ca]

\* set(key, value, ttlMs = 60000); ttlMs is <<>> when the caller leaves it out
set(ca, key, value, ttlMs) ==
    (key :> CacheEntry(value, IF ttlMs = <<>> THEN DefaultTtl ELSE ttlMs[1])) @@ ca

fileKey(filePath) == "file:" \o relative(workspaceRoot, filePath)

\* getFile without the comparison of modification times
getFileIgnoringMtime(ca, fs, filePath) ==
    LET got == get(ca, fileKey(filePath))
    IN  IF got.value # null /\ isFile(fs, filePath)
        THEN [value |-> got.value.content, cache |-> got.cache]
        ELSE [value |-> null, cache |-> got.cache]

getFile(ca, fs, filePath) ==
    LET got == get(ca, fileKey(filePath))
        cached == got.value
    IN  IF cached # null /\ isFile(fs, filePath) /\ fs[resolve(filePath)].mtime = cached.mtime
        THEN [value |-> cached.content, cache |-> got.cache]
        ELSE [value |-> null, cache |-> got.cache]

setFile(ca, fs, filePath, content) ==
    IF ~existsSync(fs, filePath) THEN ca
    ELSE set(ca, fileKey(filePath),
             [content |-> content,
              mtime |-> IF isFile(fs, filePath) THEN fs[resolve(filePath)].mtime ELSE 0],
             <<FileTtl>>)

\* String.prototype.toLowerCase of a whole string
\* Cache.invalidate that removes the keys that start with the pattern
invalidateByPrefix(ca, pattern) ==
    [k \in {key \in DOMAIN ca : ~startsWith(key, pattern)} |-> ca[k]]

\* Cache.invalidate(pattern)
invalidate(ca, pattern) ==
    [k \in {key \in DOMAIN ca : ~includes(key, pattern)} |-> ca[k]]

\* Date.now() on the clock of the machine: start-up is long after 1970
Epoch == 1000000000
Clock == Epoch + now

TreeTtl == 30000

\* since: the watcher has reported a file after the tree was set last;
\* notified: what since was when getProjectTree was called last
NoTree == [op |-> "", value |-> null, at |-> 0, setAt |-> 0, since |-> FALSE,
           notified |-> FALSE]

\* getProjectTree that still returns the tree when the 30 seconds have passed
getProjectTreeInclusive(slot) ==
    IF Clock - slot.timestamp <= TreeTtl THEN slot.tree ELSE null

getProjectTree(slot) ==
    IF Clock - slot.timestamp < TreeTtl THEN slot.tree ELSE null

setProjectTree(slot, tree) == [tree |-> tree, timestamp |-> Clock]

RECURSIVE lowerCase(_)
lowerCase(s) ==
    IF s = "" THEN "" ELSE toLowerCase(charAt(s, 1)) \o lowerCase(SubSeq(s, 2, Len(s)))

\* the position of the entry of the Map with that key, 0 if it has none
keyAt(index, name) ==
    IF \E k \in 1..Len(index) : index[k].name = name
    THEN CHOOSE k \in 1..Len(index) : index[k].name = name
    ELSE 0

\* addToIndex that pushes the path whether or not the list holds it
addToIndexAgain(index, filePath) ==
    LET name == lowerCase(basename(filePath))
        k == keyAt(index, name)
    IN  IF k = 0 THEN Append(index, [name |-> name, paths |-> <<filePath>>])
        ELSE [index EXCEPT ![k].paths = Append(@, filePath)]

addToIndex(index, filePath) ==
    LET name == lowerCase(basename(filePath))
        k == keyAt(index, name)
    IN  IF k = 0 THEN Append(index, [name |-> name, paths |-> <<filePath>>])
        ELSE IF \E i \in 1..Len(index[k].paths) : index[k].paths[i] = filePath THEN index
        ELSE [index EXCEPT ![k].paths = Append(@, filePath)]

removeFromIndex(index, filePath) ==
    LET name == lowerCase(basename(filePath))
        k == keyAt(index, name)
        existing == index[k].paths
        idx == IF \E i \in 1..Len(existing) : existing[i] = filePath
               THEN CHOOSE i \in 1..Len(existing) :
                       /\ existing[i] = filePath
                       /\ \A j \in 1..(i - 1) : existing[j] # filePath
               ELSE 0
        spliced == SubSeq(existing, 1, idx - 1) \o SubSeq(existing, idx + 1, Len(existing))
    IN  IF k = 0 \/ idx = 0 THEN index
        ELSE IF spliced = <<>> THEN SubSeq(index, 1, k - 1) \o SubSeq(index, k + 1, Len(index))
        ELSE [index EXCEPT ![k].paths = spliced]

\* findFiles that compares the query as it was typed
findFilesQueryAsTyped(index, query) ==
    LET results[k \in 0..Len(index)] ==
            IF k = 0 THEN <<>>
            ELSE IF includes(index[k].name, query)
                 THEN results[k - 1] \o [i \in 1..Len(index[k].paths) |->
                                            relative(workspaceRoot, index[k].paths[i])]
            ELSE results[k - 1]
    IN  SubSeq(results[Len(index)], 1,
               IF Len(results[Len(index)]) < 50 THEN Len(results[Len(index)]) ELSE 50)

\* findFiles(query): the entries of the Map are visited in insertion order
findFiles(index, query) ==
    LET lowerQuery == lowerCase(query)
        results[k \in 0..Len(index)] ==
            IF k = 0 THEN <<>>
            ELSE IF includes(index[k].name, lowerQuery)
                 THEN results[k - 1] \o [i \in 1..Len(index[k].paths) |->
                                            relative(workspaceRoot, index[k].paths[i])]
            ELSE results[k - 1]
    IN  SubSeq(results[Len(index)], 1,
               IF Len(results[Len(index)]) < 50 THEN Len(results[Len(index)]) ELSE 50)

\* indexDirectory(dir): the index after the entries of dir were visited
RECURSIVE indexDirectory(_, _, _)
indexDirectory(index, fs, dir) ==
    LET ignoreDirs == {".git", "node_modules", ".ai-agent", "out", "dist", "__pycache__",
                       ".next", "vendor"}
        entries == readdirSync(fs, dir)
        visit(ix, name) ==
            IF startsWith(name, ".") /\ name # ".env.example" THEN ix
            ELSE IF name \in ignoreDirs THEN ix
            ELSE IF isDirectory(pathJoin(dir, name)) THEN indexDirectory(ix, fs, pathJoin(dir, name))
            ELSE addToIndex(ix, pathJoin(dir, name))
        upTo[k \in 0..Len(entries)] == IF k = 0 THEN index ELSE visit(upTo[k - 1], entries[k])
    IN  upTo[Len(entries)]

buildFileIndex(fs) == indexDirectory(<<>>, fs, workspaceRoot)

\* ------------------------------------------------------- thread operations
Agent(msgs, cur, store, nid, notified) ==
    [messages |-> msgs, currentThread |-> cur, threads |-> store,
     nextThreadId |-> nid, threadChanged |-> notified]

Keep(msgs) == Agent(msgs, currentThread, threads, nextThreadId, threadChanged)

\* newThread(): a fresh Thread object becomes the active thread, the live
\* transcript is re-seeded by initMessages(), the presentation layer is told.
newThread ==
    Agent(initMessages,
          [id |-> nextThreadId, title |-> "New Chat", messages |-> <<>>],
          threads, nextThreadId + 1, nextThreadId)

UserTurns(msgs) == {j \in 1..Len(msgs) : msgs[j].role = "user"}

FirstUserTurn(msgs) == CHOOSE j \in UserTurns(msgs) : \A l \in UserTurns(msgs) : j <= l

saveThread(store, thread) == (thread.id :> thread) @@ store

\* saveCurrentThread without the test of the autoSave option
saveCurrentThreadWhateverThePolicy(msgs) ==
    LET a == IF currentThread = NoThread THEN newThread ELSE Keep(msgs)
        sliced == [a.currentThread EXCEPT !.messages = Tail(a.messages)]
    IN  Agent(a.messages, sliced, saveThread(a.threads, sliced), a.nextThreadId,
              a.threadChanged)

\* saveCurrentThread that stores the whole live transcript
saveCurrentThreadUnsliced(msgs) ==
    IF ~autoSave THEN Keep(msgs)
    ELSE LET a == IF currentThread = NoThread THEN newThread ELSE Keep(msgs)
             whole == [a.currentThread EXCEPT !.messages = a.messages]
         IN  Agent(a.messages, whole, saveThread(a.threads, whole),
                   a.nextThreadId, a.threadChanged)

\* saveCurrentThread() run on the transcript msgs; with no active thread it
\* first calls newThread(), and only then copies this.messages.slice(1).
saveCurrentThread(msgs) ==
    IF ~autoSave THEN Keep(msgs)
    ELSE LET a == IF currentThread = NoThread THEN newThread ELSE Keep(msgs)
             sliced == [a.currentThread EXCEPT !.messages = Tail(a.messages)]
             first == a.messages[FirstUserTurn(a.messages)]
             titled == IF /\ sliced.title = "New Chat"
                          /\ UserTurns(a.messages) # {}
                          /\ first.content # ""
                       THEN [sliced EXCEPT !.title = first.content]
                       ELSE sliced
         IN  Agent(a.messages, titled, saveThread(a.threads, titled),
                   a.nextThreadId, a.threadChanged)

\* loadThread(id): storage.loadThread(id) is null for an id without a file
loadThread(id) ==
    IF id \notin DOMAIN threads THEN Keep(messages)
    ELSE Agent(initMessages \o threads[id].messages, threads[id], threads, nextThreadId, id)

\* deleteThread that resets the Agent whichever thread is deleted
deleteThreadAlwaysResets(id) ==
    Agent(initMessages, NoThread, [j \in DOMAIN threads \ {id} |-> threads[j]], nextThreadId, 0)

deleteThread(id) ==
    LET store == [j \in DOMAIN threads \ {id} |-> threads[j]]
    IN  IF currentThread # NoThread /\ currentThread.id = id
        THEN Agent(initMessages, NoThread, store, nextThreadId, 0)
        ELSE Agent(messages, currentThread, store, nextThreadId, threadChanged)

clearHistory == Agent(initMessages, NoThread, threads, nextThreadId, 0)

\* a request of the view: the method called, its argument, what it returned
\* (for stop: whether a call was aborted), where each chat() stood, and how
\* many such requests were handled so far
Request(op, id, result, n) ==
    [op |-> op, id |-> id, result |-> result, during |-> pc, n |-> n]

NoRequest == [op |-> "", id |-> 0, result |-> FALSE, during |-> <<>>, n |-> 0]

SetAgent(a) ==
    /\ messages' = a.messages
    /\ currentThread' = a.currentThread
    /\ threads' = a.threads
    /\ nextThreadId' = a.nextThreadId
    /\ threadChanged' = a.threadChanged

\* ------------------------------------------------------------------ chat()
InFlight == {c \in Chats : pc[c] = "llm"}
Executing == {c \in Chats : pc[c] = "tool"}
Active == InFlight \cup Executing
OneAtATime == Active = {}

TotalCalls == LET Sum[c \in 0..MaxRequests] == IF c = 0 THEN 0 ELSE calls[c] + Sum[c - 1]
              IN  Sum[MaxRequests]

\* callLLM that goes on with the AbortController the Agent holds
callLLMReusesToken(c, msgs, it, tm) ==
    /\ overlapped => TotalCalls < MaxOverlapCalls
    /\ messages' = msgs
    /\ pc' = [pc EXCEPT ![c] = "llm"]
    /\ iter' = [iter EXCEPT ![c] = it]
    /\ calls' = [calls EXCEPT ![c] = @ + 1]
    /\ log' = [log EXCEPT ![c]["connecting"] = @ + 1]
    /\ abortController' = IF abortController = None THEN <<c, calls[c] + 1>> ELSE abortController
    /\ aborted' = aborted
    /\ timers' = tm \cup {<<c, calls[c] + 1>>}
    /\ UNCHANGED <<threadVars, saveCalls, exitTranscript, lastAbort>>

\* callLLM() up to its await: a fresh AbortController replaces the Agent's,
\* a timeout timer is armed, the request is sent.
callLLM(c, msgs, it, tm) ==
    /\ overlapped => TotalCalls < MaxOverlapCalls    \* bound of the interleaved runs
    /\ messages' = msgs
    /\ pc' = [pc EXCEPT ![c] = "llm"]
    /\ iter' = [iter EXCEPT ![c] = it]
    /\ calls' = [calls EXCEPT ![c] = @ + 1]
    /\ log' = [log EXCEPT ![c]["connecting"] = @ + 1]
    /\ abortController' = <<c, calls[c] + 1>>
    /\ aborted' = [aborted EXCEPT ![c] = FALSE]
    /\ timers' = tm \cup {<<c, calls[c] + 1>>}
    /\ UNCHANGED <<threadVars, saveCalls, exitTranscript, lastAbort>>

\* chat() returns: the notification is logged and, except on the error
\* path, saveCurrentThread() runs.
Exit(c, msgs, note, it, tm) ==
    /\ SetAgent(IF ExitSaves(note) THEN saveCurrentThread(msgs) ELSE Keep(msgs))
    /\ pc' = [pc EXCEPT ![c] = "done"]
    /\ iter' = [iter EXCEPT ![c] = it]
    /\ log' = [log EXCEPT ![c][note] = @ + 1]
    /\ saveCalls' = [saveCalls EXCEPT ![c] = @ + IF ExitSaves(note) THEN 1 ELSE 0]
    /\ exitTranscript' = [exitTranscript EXCEPT ![c] = msgs]
    /\ aborted' = [aborted EXCEPT ![c] = FALSE]
    /\ timers' = tm
    /\ lastAbort' = NoAbort
    /\ UNCHANGED <<abortController, calls>>

\* the head of the for loop: next round, or the code after the loop
Loop(c, msgs, it, tm) ==
    IF LoopContinues(it) THEN callLLM(c, msgs, it, tm)
    ELSE Exit(c, msgs, "max", it, tm)

\* chat(userMessage) from its call to the first await
Send(c) ==
    /\ pc[c] = "idle"
    /\ requests < MaxRequests
    /\ requests' = requests + 1
    /\ (c = 1) \/ (c > 1 /\ pc[c - 1] # "idle" /\ TotalCalls <= MaxEarlierCalls)
    /\ Loop(c, Append(messages, UserMessage(UserText(c))), 0, timers)
    /\ overlapped' = (overlapped \/ Active # {})
    /\ UNCHANGED <<autoSave, pending, tcIdx, lastRes, onlyTools, worldVars>>

HasToolCalls(res) == res.ok /\ ~res.error /\ res.msg /\ Len(res.tool_calls) > 0

\* the rounds in which the endpoint may answer with any of VariedResponses:
\* the leading ones and the last one before the cap
VariedRound(i) == i < MaxVariedRounds \/ i = MaxIterations - 1

\* the fetch of c's call settles without having been aborted
Respond(c, res) ==
    /\ pc[c] = "llm"
    /\ ~aborted[c]
    /\ res \in VariedResponses => VariedRound(iter[c])
    /\ lastRes' = [lastRes EXCEPT ![c] = res]
    /\ onlyTools' = [onlyTools EXCEPT ![c] = @ /\ HasToolCalls(res)]
    /\ LET tm == ClearTimeout(timers, <<c, calls[c]>>)
           kind == Classify(res)
       IN  CASE kind \in {"throw", "error"} ->
                   /\ Exit(c, messages, "error", iter[c], tm)
                   /\ UNCHANGED <<pending, tcIdx>>
             [] kind = "skip" ->
                   /\ Loop(c, messages, iter[c] + 1, tm)
                   /\ UNCHANGED <<pending, tcIdx>>
             [] kind = "content" ->
                   /\ Exit(c, Append(messages, AssistantMessage(res)), "content", iter[c], tm)
                   /\ UNCHANGED <<pending, tcIdx>>
             [] kind = "tools" ->
                   /\ messages' = Append(messages, AssistantMessage(res))
                   /\ pending' = [pending EXCEPT ![c] = res.tool_calls]
                   /\ tcIdx' = [tcIdx EXCEPT ![c] = 1]
                   /\ pc' = [pc EXCEPT ![c] = "tool"]
                   /\ timers' = tm
                   /\ UNCHANGED <<threadVars, iter, calls, log, saveCalls, exitTranscript,
                                  abortController, aborted, lastAbort>>
    /\ UNCHANGED <<autoSave, overlapped, requests, worldVars>>

\* chat() resumes with the text its awaited executeTool() returned: the tool
\* message is pushed, then the next tool call or the next round follows
ToolReturns(c, result) ==
    /\ pc[c] = "tool"
    /\ LET tc == pending[c][tcIdx[c]]
           msgs == AppendToolResult(messages, tc, result)
       IN  IF tcIdx[c] < Len(pending[c])
           THEN /\ messages' = msgs
                /\ tcIdx' = [tcIdx EXCEPT ![c] = @ + 1]
                /\ UNCHANGED <<threadVars, abortVars, pc, iter, calls, pending, log,
                               saveCalls, exitTranscript>>
           ELSE /\ Loop(c, msgs, iter[c] + 1, timers)
                /\ pending' = [pending EXCEPT ![c] = <<>>]
                /\ tcIdx' = [tcIdx EXCEPT ![c] = 0]
    /\ UNCHANGED <<autoSave, lastRes, onlyTools, overlapped, requests>>

\* the awaited executeTool() of the current tool call returns its text
ToolDone(c) == ToolReturns(c, "result") /\ UNCHANGED worldVars

\* ------------------------------------------------------ Agent.executeTool
\* const x = v; ... : the value v is computed once and named in what follows
With(v, F(_)) == CHOOSE r \in {F(x) : x \in {v}} : TRUE

resolvePath(p) ==
    IF p = "" THEN workspaceRoot
    ELSE IF isAbsolute(p) THEN p
    ELSE pathJoin(workspaceRoot, p)

NotRun == [ran |-> FALSE]

\* what one executeTool() call returns and leaves behind; the fields not set
\* by a tool are the state it found
Outcome(result) ==
    [result |-> result, files |-> files, backups |-> backups,
     changeHistory |-> changeHistory, shell |-> shell, cache |-> cache, touched |-> {},
     pathCheck |-> NotRun, sizeCheck |-> NotRun, cmdCheck |-> NotRun, confirm |-> "",
     memory |-> memory]

Error(message) == Text("Error: " \o message)

Access(op, p) == [op |-> op, path |-> resolve(p)]

RECURSIVE listFilesRecursive(_, _)
listFilesRecursive(dir, base) ==
    With(readdirSync(files, dir), LAMBDA entries :
        LET sub(name) ==
                LET relPath == IF base # "" THEN base \o "/" \o name ELSE name
                IN  IF isDirectory(pathJoin(dir, name))
                    THEN IF ~startsWith(name, ".") /\ name # "node_modules"
                         THEN listFilesRecursive(pathJoin(dir, name), relPath)
                         ELSE <<>>
                    ELSE <<relPath>>
            upTo[k \in 0..Len(entries)] == IF k = 0 THEN <<>> ELSE upTo[k - 1] \o sub(entries[k])
        IN  upTo[Len(entries)])

\* String.prototype.slice(0, n): the first n characters of a text
slice(t, n) ==
    LET need == IF t.n = 0 THEN 0
                ELSE IF t.n * Len(t.unit) <= n THEN t.n
                ELSE (n \div Len(t.unit)) + 1
        copies[k \in 0..need] == IF k = 0 THEN "" ELSE copies[k - 1] \o t.unit
    IN  SubSeq(copies[need], 1, IF Len(copies[need]) < n THEN Len(copies[need]) ELSE n)

\* matchGlob(file, pattern)
matchGlob(file, pattern) ==
    test(RegExp(Cat([k \in 1..Len(pattern) |->
                        IF charAt(pattern, k) = "*" THEN Star(Dot)
                        ELSE Chars({charAt(pattern, k)})]), FALSE), file)

\* regex.test(line) of a RegExp with the g flag: the search starts at
\* lastIndex, which a match moves behind itself and a failure resets
testFrom(re, line, lastIndex) ==
    LET starts == {i \in (lastIndex + 1)..(Len(line) + 1) : ends(re.r, line, i, re.i) # {}}
        first == CHOOSE i \in starts : \A j \in starts : i <= j
        stop == CHOOSE e \in ends(re.r, line, first, re.i) :
                    \A f \in ends(re.r, line, first, re.i) : f <= e
    IN  IF lastIndex > Len(line) \/ starts = {} THEN [found |-> FALSE, lastIndex |-> 0]
        ELSE [found |-> TRUE, lastIndex |-> stop - 1]

\* Array.prototype.slice(0, n)
take(seq, n) == SubSeq(seq, 1, IF Len(seq) < n THEN Len(seq) ELSE n)

\* searchInFiles(query, dir, pattern): the files read and the lines reported.
\* The query is a word without metacharacters; a content is one line, of
\* which the first hundred characters are looked at.
searchInFiles(query, dir, pattern) ==
    With(SelectSeq(take(listFilesRecursive(dir, ""), 100),
                   LAMBDA f : pattern = "" \/ matchGlob(f, pattern)), LAMBDA picked :
        LET regex == RegExp(Lit(query), TRUE)
            scan[k \in 0..Len(picked)] ==
                IF k = 0 THEN [results |-> <<>>, lastIndex |-> 0]
                ELSE With(<<scan[k - 1],
                            slice(readFileSync(files, pathJoin(dir, picked[k])), 100)>>,
                          LAMBDA at :
                     With(testFrom(regex, at[2], at[1].lastIndex), LAMBDA t :
                         [results |-> IF t.found
                                      THEN Append(at[1].results,
                                                  picked[k] \o ":1: " \o trim(at[2]))
                                      ELSE at[1].results,
                          lastIndex |-> t.lastIndex]))
        IN  [results |-> take(scan[Len(picked)].results, 50),
             read |-> {Access("read", pathJoin(dir, picked[k])) : k \in 1..Len(picked)}])

list_files(args) ==
    LET dir == resolvePath(args.path)
        text(names) == With(join(names, "\n"), LAMBDA joined :
                           Text(IF joined = "" THEN "(empty)" ELSE joined))
    IN  IF ~existsSync(files, dir)
        THEN Outcome(Error("Not found: " \o (IF args.path = "" THEN "." ELSE args.path)))
        ELSE IF isFile(files, dir) THEN Outcome(Error("'" \o args.path \o "' is a file"))
        ELSE [Outcome(text(IF args.recursive THEN listFilesRecursive(dir, "")
                           ELSE readdirSync(files, dir)))
                 EXCEPT !.touched = {Access("list", dir)}]

read_file(args) ==
    LET filePath == resolvePath(args.path)
        pathCheck == isPathSafe(filePath)
        sizeCheck == checkFileSize(files, filePath)
        cached == getFile(cache, files, filePath)
        content == readFileSync(files, filePath)
    IN  IF ~pathCheck.safe
        THEN [Outcome(Error(pathCheck.reason)) EXCEPT !.pathCheck = pathCheck]
        ELSE IF ~existsSync(files, filePath)
        THEN [Outcome(Error("File not found: " \o args.path)) EXCEPT !.pathCheck = pathCheck]
        ELSE IF ~sizeCheck.ok
        THEN [Outcome(Error(sizeCheck.reason))
                 EXCEPT !.pathCheck = pathCheck, !.sizeCheck = sizeCheck]
        ELSE IF cached.value # null /\ length(cached.value) > 0
        THEN [Outcome(cached.value)
                 EXCEPT !.pathCheck = pathCheck, !.sizeCheck = sizeCheck,
                        !.cache = cached.cache, !.touched = {Access("cached", filePath)}]
        ELSE IF isDirectory(filePath)
        THEN [Outcome(Error("EISDIR: illegal operation on a directory, read"))
                 EXCEPT !.pathCheck = pathCheck, !.sizeCheck = sizeCheck,
                        !.cache = cached.cache]
        ELSE [Outcome(content)
                 EXCEPT !.pathCheck = pathCheck, !.sizeCheck = sizeCheck,
                        !.cache = setFile(cached.cache, files, filePath, content),
                        !.touched = {Access("read", filePath)}]

\* write_file without its path check
write_fileUngated(args, answer) ==
    LET filePath == resolvePath(args.path)
        exists == existsSync(files, filePath)
        oldContent == IF exists THEN readFileSync(files, filePath) ELSE null
    IN  IF isDirectory(filePath)
        THEN Outcome(Error("EISDIR: illegal operation on a directory, read"))
        ELSE [Outcome(Text("OK Written: " \o args.path))
                 EXCEPT !.backups = IF exists /\ backupBeforeWrite
                                    THEN backupFile(files, filePath) ELSE backups,
                        !.files = writeFileSync(files, filePath, args.content),
                        !.changeHistory = recordChange(changeHistory, filePath, oldContent,
                                                       args.content),
                        !.touched = {Access("write", filePath)}]

\* write_file that asks and writes whatever the answer
write_fileWhateverTheAnswer(args, answer) ==
    LET filePath == resolvePath(args.path)
        pathCheck == isPathSafe(filePath)
        exists == existsSync(files, filePath)
        oldContent == IF exists THEN readFileSync(files, filePath) ELSE null
    IN  IF ~pathCheck.safe
        THEN [Outcome(Error(pathCheck.reason)) EXCEPT !.pathCheck = pathCheck]
        ELSE IF isDirectory(filePath)
        THEN [Outcome(Error("EISDIR: illegal operation on a directory, read"))
                 EXCEPT !.pathCheck = pathCheck]
        ELSE [Outcome(Text("OK Written: " \o args.path))
                 EXCEPT !.pathCheck = pathCheck,
                        !.confirm = IF confirmBeforeWrite THEN answer ELSE "",
                        !.backups = IF exists /\ backupBeforeWrite
                                    THEN backupFile(files, filePath) ELSE backups,
                        !.files = writeFileSync(files, filePath, args.content),
                        !.changeHistory = recordChange(changeHistory, filePath, oldContent,
                                                       args.content),
                        !.touched = {Access("write", filePath)}]

\* answer is what the user chose in the modal dialog of confirmWrite(); the
\* outcome's confirm is that answer, or "" when confirmWrite() was not called
write_file(args, answer) ==
    LET filePath == resolvePath(args.path)
        pathCheck == isPathSafe(filePath)
        exists == existsSync(files, filePath)
        oldContent == IF exists THEN readFileSync(files, filePath) ELSE null
    IN  IF ~pathCheck.safe
        THEN [Outcome(Error(pathCheck.reason)) EXCEPT !.pathCheck = pathCheck]
        ELSE IF isDirectory(filePath)
        THEN [Outcome(Error("EISDIR: illegal operation on a directory, read"))
                 EXCEPT !.pathCheck = pathCheck]
        ELSE IF confirmBeforeWrite /\ answer # "Apply"
        THEN [Outcome(Text("Write cancelled by user"))
                 EXCEPT !.pathCheck = pathCheck, !.confirm = answer]
        ELSE [Outcome(Text("OK Written: " \o args.path))
                 EXCEPT !.pathCheck = pathCheck,
                        !.confirm = IF confirmBeforeWrite THEN answer ELSE "",
                        !.backups = IF exists /\ backupBeforeWrite
                                    THEN backupFile(files, filePath) ELSE backups,
                        !.files = writeFileSync(files, filePath, args.content),
                        !.changeHistory = recordChange(changeHistory, filePath, oldContent,
                                                       args.content),
                        !.touched = {Access("write", filePath)}]

delete_file(args) ==
    LET filePath == resolvePath(args.path)
        pathCheck == isPathSafe(filePath)
    IN  IF ~pathCheck.safe
        THEN [Outcome(Error(pathCheck.reason)) EXCEPT !.pathCheck = pathCheck]
        ELSE IF ~existsSync(files, filePath)
        THEN [Outcome(Error("Not found: " \o args.path)) EXCEPT !.pathCheck = pathCheck]
        ELSE IF isDirectory(filePath)
        THEN [Outcome(Error("EISDIR: illegal operation on a directory, read"))
                 EXCEPT !.pathCheck = pathCheck]
        ELSE [Outcome(Text("OK Deleted: " \o args.path))
                 EXCEPT !.pathCheck = pathCheck,
                        !.backups = IF backupBeforeWrite
                                    THEN backupFile(files, filePath) ELSE backups,
                        !.files = unlinkSync(files, filePath),
                        !.changeHistory = recordChange(changeHistory, filePath,
                                                       readFileSync(files, filePath),
                                                       Text("")),
                        !.touched = {Access("delete", filePath)}]

search_files(args) ==
    LET found == searchInFiles(args.query, resolvePath(args.path), args.filePattern)
    IN  [Outcome(Text(IF found.results = <<>> THEN "No matches found"
                      ELSE join(found.results, "\n")))
            EXCEPT !.touched = found.read]

\* exec is how cp.execSync ended: its exit status and what it printed
run_command(args, exec) ==
    LET cmdCheck == isCommandSafe(args.cmd)
    IN  IF ~cmdCheck.safe
        THEN [Outcome(Text("üö´ Blocked: " \o cmdCheck.reason)) EXCEPT !.cmdCheck = cmdCheck]
        ELSE [Outcome(Text(IF exec.status # 0
                           THEN "Exit " \o ToString(exec.status) \o ": " \o exec.output
                           ELSE IF exec.output = "" THEN "(no output)" ELSE exec.output))
                 EXCEPT !.cmdCheck = cmdCheck, !.shell = Append(shell, args.cmd)]

undo ==
    LET result == undoLastChange
    IN  [Outcome(IF result.success THEN Text("OK " \o result.message)
                 ELSE Error(result.message))
            EXCEPT !.files = result.files, !.changeHistory = result.changeHistory,
                   !.touched = result.touched]

\* symbols is how vscode.executeDocumentSymbolProvider ended for the file
get_file_outline(args, symbols) ==
    [Outcome(Text(IF symbols = "throws" THEN "Could not get symbols for this file"
                  ELSE "No symbols found"))
        EXCEPT !.touched = {Access("read", resolvePath(args.path))}]

\* ------------------------------------------------------ Storage: the memory
\* The memory file is absent, holds the JSON text of a Memory, or holds
\* something JSON.parse rejects.
MemoryFile(facts) == [state |-> "json", facts |-> facts, updated |-> now]

NoMemory == [state |-> "absent", facts |-> <<>>, updated |-> 0]

CorruptMemory == [state |-> "corrupt", facts |-> <<>>, updated |-> 0]

\* JSON.stringify of an array element, read back by JSON.parse: undefined is
\* written as null
toJSON(v) == IF v = undefined THEN null ELSE v

\* `${v}`
show(v) ==
    IF v = undefined THEN "undefined"
    ELSE IF v = null THEN "null"
    ELSE IF DOMAIN v = {"num"} THEN ToString(v.num)
    ELSE v.unit

loadMemory(file) == IF file.state = "json" THEN file.facts ELSE <<>>

\* saveMemory(memory): write is how fs.writeFileSync ends
saveMemory(file, facts, write) ==
    IF write # "ok"
    THEN [threw |-> TRUE, file |-> file,
          message |-> write \o ": permission denied, open '/ws/.ai-agent/memory.json'"]
    ELSE [threw |-> FALSE, file |-> MemoryFile([k \in 1..Len(facts) |-> toJSON(facts[k])]),
          message |-> ""]

facts_includes(facts, fact) == \E k \in 1..Len(facts) : facts[k] = fact

addMemory(file, fact, write) ==
    LET facts == loadMemory(file)
    IN  IF ~facts_includes(facts, fact)
        THEN saveMemory(file, Append(facts, fact), write)
        ELSE [threw |-> FALSE, file |-> file, message |-> ""]

splice(seq, index) == SubSeq(seq, 1, index) \o SubSeq(seq, index + 2, Len(seq))

\* removeMemory(index), index counted from 0
removeMemory(file, index, write) ==
    LET facts == loadMemory(file)
    IN  IF index >= 0 /\ index < Len(facts)
        THEN LET saved == saveMemory(file, splice(facts, index), write)
             IN  [threw |-> saved.threw, file |-> saved.file, message |-> saved.message,
                  removed |-> TRUE]
        ELSE [threw |-> FALSE, file |-> file, message |-> "", removed |-> FALSE]

remember(args, write) ==
    LET added == addMemory(memory, args.fact, write)
    IN  IF added.threw THEN Outcome(Error(added.message))
        ELSE [Outcome(Text("OK Remembered: \"" \o show(args.fact) \o "\""))
                 EXCEPT !.memory = added.file]

recall ==
    LET facts == loadMemory(memory)
    IN  IF Len(facts) = 0 THEN Outcome(Text("No memories stored yet."))
        ELSE Outcome(Text(join([k \in 1..Len(facts) |->
                                   ToString(k) \o ". " \o show(facts[k])], "\n")))

\* (args.index || 1) - 1: a missing index and the index 0 both stand for 1
forget(args, write) ==
    LET idx == (IF args.index = undefined THEN 1
                ELSE IF args.index.num = 0 THEN 1 ELSE args.index.num) - 1
        removed == removeMemory(memory, idx, write)
    IN  IF removed.threw THEN Outcome(Error(removed.message))
        ELSE IF removed.removed
        THEN [Outcome(Text("OK Forgot item " \o show(args.index)))
                 EXCEPT !.memory = removed.file]
        ELSE Outcome(Error("Invalid index " \o show(args.index)))

\* what the environment contributes to a call of the tool
Inputs(name) ==
    [answer : IF name = "write_file" /\ confirmBeforeWrite
              THEN {"Apply", "Cancel", "undefined"}
              ELSE {"Apply"},
     exec : IF name = "run_command"
            THEN {[status |-> 0, output |-> ""], [status |-> 1, output |-> "failed"]}
            ELSE {[status |-> 0, output |-> ""]},
     symbols : IF name = "get_file_outline" THEN {"none", "throws"} ELSE {"none"},
     write : IF name \in {"remember", "forget"} THEN {"ok", "EACCES"} ELSE {"ok"}]

executeTool(name, args, env) ==
    CASE name = "list_files" -> list_files(args)
      [] name = "read_file" -> read_file(args)
      [] name = "write_file" -> write_file(args, env.answer)
      [] name = "delete_file" -> delete_file(args)
      [] name = "search_files" -> search_files(args)
      [] name = "run_command" -> run_command(args, env.exec)
      [] name = "undo" -> undo
      [] name = "get_file_outline" -> get_file_outline(args, env.symbols)
      [] name = "remember" -> remember(args, env.write)
      [] name = "recall" -> recall
      [] name = "forget" -> forget(args, env.write)
      [] OTHER -> Outcome(Error("Unknown tool: " \o name))

\* the tool calls the endpoint asks for
Args == [path |-> "", content |-> Text(""), cmd |-> "", query |-> "", filePattern |-> "",
         recursive |-> FALSE, fact |-> undefined, index |-> undefined]

Call(id, name, args) == [id |-> id, name |-> name, args |-> args]

\* a tool call as the endpoint sends it, with tc.function.arguments a string
RawCall(id, name, arguments) == [id |-> id, name |-> name, arguments |-> arguments]

\* ------------------------------------------------------ JSON.parse
\* JSON.parse of the text of an object whose members are strings, integers,
\* true or false; any other text is rejected.  The result holds the members
\* in the order of the text, and, when the text is rejected, the members
\* read before the error.
Parsed(ok, pairs) == [ok |-> ok, pairs |-> pairs]

JSONWhitespace == {" ", "\t", "\n", "\r"}

Digit(ch) ==
    CASE ch = "0" -> 0 [] ch = "1" -> 1 [] ch = "2" -> 2 [] ch = "3" -> 3 [] ch = "4" -> 4
      [] ch = "5" -> 5 [] ch = "6" -> 6 [] ch = "7" -> 7 [] ch = "8" -> 8 [] ch = "9" -> 9
      [] OTHER -> -1

RECURSIVE skipWhitespace(_, _)
skipWhitespace(s, i) ==
    IF i <= Len(s) /\ charAt(s, i) \in JSONWhitespace THEN skipWhitespace(s, i + 1) ELSE i

\* the characters of a string from position i, after its opening quote
RECURSIVE scanString(_, _, _)
scanString(s, i, acc) ==
    IF i > Len(s) THEN [ok |-> FALSE, next |-> i, value |-> acc]
    ELSE IF charAt(s, i) = "\"" THEN [ok |-> TRUE, next |-> i + 1, value |-> acc]
    ELSE IF charAt(s, i) \in {"\t", "\n", "\r"} THEN [ok |-> FALSE, next |-> i, value |-> acc]
    ELSE IF charAt(s, i) = "\\"
    THEN IF i + 1 > Len(s) THEN [ok |-> FALSE, next |-> i, value |-> acc]
         ELSE IF charAt(s, i + 1) \in {"\"", "\\", "/"}
         THEN scanString(s, i + 2, acc \o charAt(s, i + 1))
         ELSE IF charAt(s, i + 1) = "n" THEN scanString(s, i + 2, acc \o "\n")
         ELSE IF charAt(s, i + 1) = "t" THEN scanString(s, i + 2, acc \o "\t")
         ELSE [ok |-> FALSE, next |-> i, value |-> acc]
    ELSE scanString(s, i + 1, acc \o charAt(s, i))

RECURSIVE scanDigits(_, _, _)
scanDigits(s, i, acc) ==
    IF i <= Len(s) /\ Digit(charAt(s, i)) >= 0
    THEN scanDigits(s, i + 1, 10 * acc + Digit(charAt(s, i)))
    ELSE [ok |-> TRUE, next |-> i, value |-> acc]

\* the value that starts at position i
scanValue(s, i) ==
    IF i > Len(s) THEN [ok |-> FALSE, next |-> i, value |-> undefined]
    ELSE IF charAt(s, i) = "\""
    THEN With(scanString(s, i + 1, ""), LAMBDA str :
             [ok |-> str.ok, next |-> str.next, value |-> Text(str.value)])
    ELSE IF Digit(charAt(s, i)) >= 0
    THEN With(scanDigits(s, i, 0), LAMBDA n :
             [ok |-> TRUE, next |-> n.next, value |-> Num(n.value)])
    ELSE IF charAt(s, i) = "-" /\ i < Len(s) /\ Digit(charAt(s, i + 1)) >= 0
    THEN With(scanDigits(s, i + 1, 0), LAMBDA n :
             [ok |-> TRUE, next |-> n.next, value |-> Num(0 - n.value)])
    ELSE IF i + 3 <= Len(s) /\ SubSeq(s, i, i + 3) = "true"
    THEN [ok |-> TRUE, next |-> i + 4, value |-> [bool |-> TRUE]]
    ELSE IF i + 4 <= Len(s) /\ SubSeq(s, i, i + 4) = "false"
    THEN [ok |-> TRUE, next |-> i + 5, value |-> [bool |-> FALSE]]
    ELSE [ok |-> FALSE, next |-> i, value |-> undefined]

\* the members of an object from position i, where a key must start
RECURSIVE scanMembers(_, _, _)
scanMembers(s, i, pairs) ==
    IF i > Len(s) \/ charAt(s, i) # "\"" THEN Parsed(FALSE, pairs)
    ELSE With(scanString(s, i + 1, ""), LAMBDA key :
        With(skipWhitespace(s, key.next), LAMBDA colon :
            IF ~key.ok \/ colon > Len(s) \/ charAt(s, colon) # ":" THEN Parsed(FALSE, pairs)
            ELSE With(scanValue(s, skipWhitespace(s, colon + 1)), LAMBDA v :
                IF ~v.ok THEN Parsed(FALSE, pairs)
                ELSE With(skipWhitespace(s, v.next), LAMBDA after :
                    With(Append(pairs, [key |-> key.value, value |-> v.value]), LAMBDA read :
                        IF after > Len(s) THEN Parsed(FALSE, read)
                        ELSE IF charAt(s, after) = ","
                        THEN scanMembers(s, skipWhitespace(s, after + 1), read)
                        ELSE IF charAt(s, after) = "}"
                        THEN Parsed(skipWhitespace(s, after + 1) > Len(s), read)
                        ELSE Parsed(FALSE, read))))))

JSONparse(s) ==
    With(skipWhitespace(s, 1), LAMBDA open :
        IF open > Len(s) \/ charAt(s, open) # "{" THEN Parsed(FALSE, <<>>)
        ELSE With(skipWhitespace(s, open + 1), LAMBDA first :
            IF first <= Len(s) /\ charAt(s, first) = "}"
            THEN Parsed(skipWhitespace(s, first + 1) > Len(s), <<>>)
            ELSE scanMembers(s, first, <<>>)))

\* the arguments object: each member of the text under its name, the last
\* one of a name standing
RECURSIVE toArgs(_, _)
toArgs(pairs, args) ==
    IF pairs = <<>> THEN args
    ELSE LET key == Head(pairs).key
             value == Head(pairs).value
         IN  toArgs(Tail(pairs),
                    CASE key = "path" -> [args EXCEPT !.path = value.unit]
                      [] key = "cmd" -> [args EXCEPT !.cmd = value.unit]
                      [] key = "query" -> [args EXCEPT !.query = value.unit]
                      [] key = "filePattern" -> [args EXCEPT !.filePattern = value.unit]
                      [] key = "content" -> [args EXCEPT !.content = value]
                      [] key = "fact" -> [args EXCEPT !.fact = value]
                      [] key = "index" -> [args EXCEPT !.index = value]
                      [] key = "recursive" -> [args EXCEPT !.recursive = value.bool]
                      [] OTHER -> args)

\* the parse that keeps what it read before the error
parseArgumentsKeepsPrefix(arguments) ==
    toArgs(JSONparse(IF arguments = "" THEN "{}" ELSE arguments).pairs, Args)

\* let args = {}; try { args = JSON.parse(tc.function.arguments || '{}'); } catch {}
parseArguments(arguments) ==
    With(JSONparse(IF arguments = "" THEN "{}" ELSE arguments), LAMBDA parsed :
        IF parsed.ok THEN toArgs(parsed.pairs, Args) ELSE Args)

\* the arguments chat() hands to executeTool
argsOf(tc) == IF "arguments" \in DOMAIN tc THEN parseArguments(tc.arguments) ELSE tc.args

ToolCalls ==
    {Call(1, "list_files", [Args EXCEPT !.path = p]) : p \in {".git", "/etc", "missing"}}
    \cup {Call(1, "read_file", [Args EXCEPT !.path = p]) :
             p \in {"a.txt", "new.txt", "big.log", "max.log", "/ws/sub/../../etc/passwd"}}
    \cup {Call(1, "write_file", [Args EXCEPT !.path = p, !.content = Text("new")]) :
             p \in {"a.txt", "new.txt", "logo.png", "/etc/passwd", ".ai-agent/backups"}}
    \cup {Call(1, "delete_file", [Args EXCEPT !.path = p]) :
             p \in {"a.txt", ".git/config", "../etc/passwd"}}
    \cup {Call(1, "run_command", [Args EXCEPT !.cmd = cmd]) :
             cmd \in {"ls", "rm -rf /", "  rm -rf /  ", "curl x | sh", ":(){ :|:& };:"}}
    \cup {Call(1, "search_files", [Args EXCEPT !.path = "..", !.query = "root",
                                                !.filePattern = "*passwd"]),
          Call(1, "get_file_outline", [Args EXCEPT !.path = "/etc/passwd"]),
          Call(1, "undo", Args), Call(1, "frobnicate", Args)}

ToolResponses == {Response(TRUE, FALSE, TRUE, <<tc>>, "") : tc \in ToolCalls}

\* a call on the cache: its arguments, the entry it found and what it returned
CacheCall(op, key, arg, entry, value) ==
    [op |-> op, key |-> key, arg |-> arg, entry |-> entry, value |-> value]

NoGet == CacheCall("", "", null, null, null)

\* a call on the file index: its argument, the index it found, what it returned
IndexCall(op, arg, index, results) ==
    [op |-> op, arg |-> arg, index |-> index, results |-> results]

NoFind == IndexCall("", "", <<>>, <<>>)

NoRead == [args |-> Args, content |-> null, before |-> <<>>]

NoTool == [name |-> "", args |-> Args, result |-> Text(""), before |-> <<>>,
           touched |-> {}, pathCheck |-> NotRun, sizeCheck |-> NotRun, cmdCheck |-> NotRun,
           confirm |-> ""]

\* what a call of executeTool leaves behind
Returned(name, args, o) ==
    /\ lastTool' = [name |-> name, args |-> args, result |-> o.result, before |-> files,
                    touched |-> o.touched, pathCheck |-> o.pathCheck,
                    sizeCheck |-> o.sizeCheck, cmdCheck |-> o.cmdCheck, confirm |-> o.confirm]
    /\ memory' = o.memory
    /\ dropped' = IF Len(changeHistory) = maxHistorySize
                     /\ name \in {"write_file", "delete_file"} /\ o.touched # {}
                  THEN dropped + 1 ELSE dropped

\* the awaited executeTool() of the current tool call runs and returns its text
ExecuteTool(c) ==
    /\ pc[c] = "tool"
    /\ \E tc \in {pending[c][tcIdx[c]]} : \E args \in {argsOf(tc)} :
          \E env \in Inputs(tc.name) : \E o \in {executeTool(tc.name, args, env)} :
              /\ ToolReturns(c, o.result)
              /\ files' = o.files
              /\ backups' = o.backups
              /\ changeHistory' = o.changeHistory
              /\ shell' = o.shell
              /\ cache' = o.cache
              /\ Returned(tc.name, args, o)
    /\ UNCHANGED <<backupBeforeWrite, confirmBeforeWrite, now, lastGet, fileIndex, lastFind,
                   lastRequest, reading, treeVars, diffing>>

\* the fetch of c's call rejects with AbortError
Cancelled(c) ==
    /\ pc[c] = "llm"
    /\ aborted[c]
    /\ Exit(c, messages, "stopped", iter[c], ClearTimeout(timers, <<c, calls[c]>>))
    /\ onlyTools' = [onlyTools EXCEPT ![c] = FALSE]
    /\ UNCHANGED <<autoSave, pending, tcIdx, lastRes, overlapped, requests, worldVars>>

\* ------------------------------------------------------------ cancellation
AbortTargetsAnyActive == {c \in Active : abortController[1] = c}

\* the chats whose in-flight fetch listens to the Agent's current controller
AbortTargets == {c \in InFlight : abortController = <<c, calls[c]>>}

abort(by, timer) ==
    /\ aborted' = [c \in Chats |-> aborted[c] \/ c \in AbortTargets]
    /\ lastAbort' = IF AbortTargets = {} THEN lastAbort
                    ELSE [by |-> by, timer |-> timer, target |-> abortController]

\* Agent.stop()
Stop ==
    /\ abort("stop", None)
    /\ UNCHANGED <<messages, threadVars, autoSave, abortController, timers, chatVars,
                   overlapped, requests, worldVars>>

\* the timer armed by call t fires: () => this.abortController?.abort()
Timeout(t) ==
    /\ t \in timers
    /\ timers' = timers \ {t}
    /\ abort("timeout", t)
    /\ UNCHANGED <<messages, threadVars, autoSave, abortController, chatVars,
                   overlapped, requests, worldVars>>

\* ------------------------------------------------ thread lifecycle requests
ThreadOp(a) ==
    /\ requests < MaxRequests
    /\ requests' = requests + 1
    /\ SetAgent(a)
    /\ UNCHANGED <<autoSave, abortVars, chatVars, overlapped, worldVars>>

NewThread == ThreadOp(newThread)

LoadThread(id) ==
    /\ id \in DOMAIN threads
    /\ ThreadOp(loadThread(id))

DeleteThread(id) ==
    /\ id \in DOMAIN threads \/ currentThread.id = id
    /\ ThreadOp(deleteThread(id))

ClearHistory == ThreadOp(clearHistory)

\* the user changes the ai-agent.autoSave setting
SetAutoSave(b) ==
    /\ b # autoSave
    /\ autoSave' = b
    /\ UNCHANGED <<messages, threadVars, abortVars, chatVars, overlapped, requests, worldVars>>

ThreadIds == 1..(nextThreadId - 1)

\* ------------------------------------------------------------ specifications
InitAgent ==
    /\ messages = initMessages
    /\ currentThread = NoThread
    /\ threads = <<>>
    /\ nextThreadId = 1
    /\ threadChanged = -1
    /\ autoSave \in BOOLEAN
    /\ abortController = None
    /\ aborted = [c \in Chats |-> FALSE]
    /\ timers = {}
    /\ pc = [c \in Chats |-> "idle"]
    /\ iter = [c \in Chats |-> 0]
    /\ calls = [c \in Chats |-> 0]
    /\ pending = [c \in Chats |-> <<>>]
    /\ tcIdx = [c \in Chats |-> 0]
    /\ log = [c \in Chats |-> [n \in Notes |-> 0]]
    /\ saveCalls = [c \in Chats |-> 0]
    /\ exitTranscript = [c \in Chats |-> <<>>]
    /\ lastRes = [c \in Chats |-> NoResponse]
    /\ onlyTools = [c \in Chats |-> TRUE]
    /\ lastAbort = NoAbort
    /\ overlapped = FALSE
    /\ requests = 0

\* the workspace /ws with a text file, a binary file, a file of exactly the
\* size limit (65536 lines of 16 bytes) and one a byte above it (61681 lines
\* of 17 bytes), its .git directory, and a file outside
InitFiles ==
    [p \in Range(FilePaths) |->
        CASE p = "/etc/passwd" -> File(Text("root:x:0:0"), 0)
          [] p = "/ws/.git/config" -> File(Text("[core]"), 0)
          [] p = "/ws/a.txt" -> File(Text("old"), 0)
          [] p = "/ws/big.log" -> File(Rep("0123456789abcdef;", 61681), 0)
          [] p = "/ws/logo.png" -> File(Text("ÿPNG"), 0)
          [] p = "/ws/max.log" -> File(Rep("0123456789abcdef", 65536), 0)
          [] OTHER -> NoFile]

InitWorld ==
    /\ files = InitFiles
    /\ backups = {}
    /\ changeHistory = <<>>
    /\ shell = <<>>
    /\ cache = <<>>
    /\ now = 1
    /\ lastTool = NoTool
    /\ lastGet = NoGet
    /\ fileIndex = buildFileIndex(InitFiles)
    /\ lastFind = NoFind
    /\ lastRequest = NoRequest
    /\ reading = NoRead
    /\ dropped = 0
    /\ memory = NoMemory
    /\ projectTree = [tree |-> Text(""), timestamp |-> 0]
    /\ lastTree = NoTree
    /\ diffing = NoDiff

Init ==
    /\ InitAgent
    /\ InitWorld
    /\ backupBeforeWrite = TRUE
    /\ confirmBeforeWrite = FALSE

ChatStep ==
    \/ \E c \in Chats, res \in Responses : Respond(c, res)
    \/ \E c \in Chats : ToolDone(c)
    \/ \E c \in Chats : Cancelled(c)

Interrupt ==
    \/ Stop
    \/ \E t \in timers : Timeout(t)
    \/ \E b \in BOOLEAN : SetAutoSave(b)

ThreadRequest ==
    \/ NewThread
    \/ \E id \in ThreadIds : LoadThread(id)
    \/ \E id \in ThreadIds : DeleteThread(id)
    \/ ClearHistory

\* Requests are delivered one at a time per conversation: a send or a thread
\* lifecycle request arrives only while no chat() is active.
Next ==
    \/ \E c \in Chats : OneAtATime /\ Send(c)
    \/ OneAtATime /\ NewThread
    \/ \E id \in ThreadIds : OneAtATime /\ LoadThread(id)
    \/ \E id \in ThreadIds : OneAtATime /\ DeleteThread(id)
    \/ OneAtATime /\ ClearHistory
    \/ ChatStep
    \/ Interrupt

Spec == Init /\ [][Next]_vars

\* The handlers as written: nothing defers a request while a chat() is
\* suspended in an await.
NextInterleaved ==
    \/ \E c \in Chats : Send(c)
    \/ ThreadRequest
    \/ ChatStep
    \/ Interrupt

SpecInterleaved == Init /\ [][NextInterleaved]_vars

\* One exchange in which the endpoint asks for tool calls, each executed
\* against the file system, under every setting of the two write options.
InitTools ==
    /\ InitAgent
    /\ autoSave
    /\ InitWorld
    /\ backupBeforeWrite \in BOOLEAN
    /\ confirmBeforeWrite = FALSE

NextTools ==
    \/ OneAtATime /\ Send(1)
    \/ \E c \in Chats, res \in ToolResponses : iter[c] < MaxToolRounds /\ Respond(c, res)
    \/ \E c \in Chats : Respond(c, Response(TRUE, FALSE, TRUE, <<>>, "Done"))
    \/ \E c \in Chats : ExecuteTool(c)

SpecTools == InitTools /\ [][NextTools]_vars

\* ------------------------------------------------------ calls on the Cache
\* The cache is called directly, the clock moves to later instants, a file of
\* the workspace is changed from outside and the file watcher reports it.
agentVars == <<messages, autoSave, chatVars, threadVars, abortVars, overlapped, requests,
               backups, changeHistory, shell, backupBeforeWrite, confirmBeforeWrite,
               lastTool, lastRequest, reading, dropped, memory, diffing>>
indexVars == <<fileIndex, lastFind>>

\* the instants after start-up at which the clock is read
Instants == {60000, 60001, 60002, 300001, 300002}

Entry(ca, key) == IF key \in DOMAIN ca THEN ca[key] ELSE null

CacheGet(key) ==
    /\ \E got \in {get(cache, key)} :
          /\ cache' = got.cache
          /\ lastGet' = CacheCall("get", key, null, Entry(cache, key), got.value)
    /\ UNCHANGED <<files, now, agentVars, indexVars, treeVars>>

CacheSet(key, value, ttlMs) ==
    /\ cache' = set(cache, key, value, ttlMs)
    /\ lastGet' = CacheCall("set", key, [value |-> value, ttlMs |-> ttlMs],
                            Entry(cache, key), null)
    /\ UNCHANGED <<files, now, agentVars, indexVars, treeVars>>

GetFile(filePath) ==
    /\ \E got \in {getFile(cache, files, filePath)} :
          /\ cache' = got.cache
          /\ lastGet' = CacheCall("getFile", filePath, null,
                                  Entry(cache, fileKey(filePath)), got.value)
    /\ UNCHANGED <<files, now, agentVars, indexVars, treeVars>>

SetFile(filePath, content) ==
    /\ cache' = setFile(cache, files, filePath, content)
    /\ lastGet' = CacheCall("setFile", filePath, content,
                            Entry(cache, fileKey(filePath)), null)
    /\ UNCHANGED <<files, now, agentVars, indexVars, treeVars>>

\* another program rewrites the file
Touch(filePath) ==
    /\ files' = writeFileSync(files, filePath, Text("changed"))
    /\ lastGet' = NoGet
    /\ UNCHANGED <<cache, now, agentVars, indexVars, treeVars>>

\* the watcher's invalidate(uri): the entries of the file leave the cache
\* and the project tree is invalidated
Notified(filePath) ==
    /\ cache' = Without(Without(cache, "file:" \o relative(workspaceRoot, filePath)),
                        "outline:" \o relative(workspaceRoot, filePath))
    /\ projectTree' = [projectTree EXCEPT !.timestamp = 0]
    /\ lastTree' = [lastTree EXCEPT !.since = lastTree.setAt # 0]

\* fileWatcher.onDidChange: the file watcher reports a change of the file
Invalidate(filePath) ==
    /\ files[filePath] # InitFiles[filePath]
    /\ Notified(filePath)
    /\ lastGet' = NoGet
    /\ UNCHANGED <<files, now, agentVars, indexVars>>

Tick(t) ==
    /\ t > now
    /\ now' = t
    /\ lastGet' = NoGet
    /\ UNCHANGED <<files, cache, agentVars, indexVars, treeVars>>

InitCache ==
    /\ InitAgent
    /\ autoSave
    /\ InitWorld
    /\ backupBeforeWrite = TRUE
    /\ confirmBeforeWrite = FALSE

NextCache ==
    \/ CacheGet("k")
    \/ \E ttlMs \in {<<>>, <<1>>} : CacheSet("k", Text("v"), ttlMs)
    \/ \E filePath \in {"/ws/a.txt", "/ws/new.txt"} : GetFile(filePath)
    \/ \E filePath \in {"/ws/a.txt", "/ws/new.txt"} : SetFile(filePath, Text("abc"))
    \/ Touch("/ws/a.txt")
    \/ Invalidate("/ws/a.txt")
    \/ \E t \in Instants : Tick(t)

SpecCache == InitCache /\ [][NextCache]_vars

\* ------------------------------------------------------ read_file and the disk
\* read_file is called while another program rewrites the file: the rewrite
\* may fall between the call's readFileSync (agent.ts:659) and the statSync of
\* its setFile (cache.ts:93).  The file watcher's notification is delivered
\* between two calls, at any later moment.
ReadDone(args, o, before) ==
    /\ lastTool' = [name |-> "read_file", args |-> args, result |-> o.result,
                    before |-> before, touched |-> o.touched, pathCheck |-> o.pathCheck,
                    sizeCheck |-> o.sizeCheck, cmdCheck |-> o.cmdCheck, confirm |-> o.confirm]
    /\ cache' = o.cache
    /\ reading' = NoRead
    /\ UNCHANGED <<messages, autoSave, chatVars, threadVars, abortVars, overlapped, requests,
                   files, backups, changeHistory, shell, backupBeforeWrite,
                   confirmBeforeWrite, now, lastGet, indexVars, lastRequest, dropped, memory,
                   treeVars, diffing>>

\* read_file(args) up to and including its readFileSync; a call that returns
\* an error or the cached content ends here
ReadBegin(args) ==
    /\ reading = NoRead
    /\ \E o \in {read_file(args)} :
          IF Access("read", resolvePath(args.path)) \in o.touched
          THEN /\ reading' = [args |-> args, content |-> o.result, before |-> files]
               /\ cache' = getFile(cache, files, resolvePath(args.path)).cache
               /\ UNCHANGED <<messages, autoSave, chatVars, threadVars, abortVars, overlapped,
                              requests, files, backups, changeHistory, shell,
                              backupBeforeWrite, confirmBeforeWrite, now, lastGet, indexVars,
                              lastRequest, lastTool, dropped, memory, treeVars, diffing>>
          ELSE ReadDone(args, o, files)

\* the rest of the call: setFile(filePath, content) stats the file as it is
\* now, then the content read is returned
ReadEnd ==
    /\ reading # NoRead
    /\ \E filePath \in {resolvePath(reading.args.path)} :
          ReadDone(reading.args,
                   [Outcome(reading.content)
                       EXCEPT !.pathCheck = isPathSafe(filePath),
                              !.sizeCheck = checkFileSize(reading.before, filePath),
                              !.cache = setFile(cache, files, filePath, reading.content),
                              !.touched = {Access("read", filePath)}],
                   reading.before)

NextRace ==
    \/ \E path \in {"a.txt", "new.txt"} : ReadBegin([Args EXCEPT !.path = path])
    \/ ReadEnd
    \/ Touch("/ws/a.txt")
    \/ reading = NoRead /\ Invalidate("/ws/a.txt")
    \/ \E t \in Instants : reading = NoRead /\ Tick(t)

SpecRace == InitCache /\ [][NextRace]_vars

\* ------------------------------------------------------ the change history
\* Tools are called one after another under every setting of the two write
\* options.  The first calls are any of the writes and deletes; later writes
\* are of a.txt, each with a content of its own, until the history is full
\* and has dropped entries.  The full history, and a short one, is undone
\* entry after entry.

\* how many changes were recorded and not undone
Written == Len(changeHistory) + dropped
MaxVaried == 1
MaxDropped == 2

InitHistory ==
    /\ InitAgent
    /\ autoSave
    /\ InitWorld
    /\ backupBeforeWrite \in BOOLEAN
    /\ confirmBeforeWrite \in BOOLEAN

\* the calls the endpoint asks for, given the history
HistoryCalls ==
    (IF Written < MaxVaried
     THEN {Call(1, "write_file", [Args EXCEPT !.path = path, !.content = Text("new")]) :
              path \in {"a.txt", "new.txt", "logo.png"}}
          \cup {Call(1, "delete_file", [Args EXCEPT !.path = path]) :
                   path \in {"a.txt", "new.txt"}}
     ELSE {})
    \cup (IF dropped < MaxDropped /\ (lastTool.name # "undo" \/ Written < MaxVaried)
          THEN {Call(1, "write_file",
                     [Args EXCEPT !.path = "a.txt",
                                  !.content = Text("v" \o ToString(Written + 1))])}
          ELSE {})
    \cup (IF \/ Written <= MaxVaried
             \/ Len(changeHistory) = maxHistorySize
             \/ lastTool.name = "undo"
          THEN {Call(1, "undo", Args)}
          ELSE {})

\* executeTool(tc.name, tc.args) runs and returns
ToolCalled(tc) ==
    /\ \E env \in Inputs(tc.name) : \E o \in {executeTool(tc.name, tc.args, env)} :
          /\ files' = o.files
          /\ backups' = o.backups
          /\ changeHistory' = o.changeHistory
          /\ shell' = o.shell
          /\ cache' = o.cache
          /\ Returned(tc.name, tc.args, o)
    /\ UNCHANGED <<messages, autoSave, chatVars, threadVars, abortVars, overlapped, requests,
                   backupBeforeWrite, confirmBeforeWrite, now, lastGet, indexVars,
                   lastRequest, reading, treeVars, diffing>>

NextHistory == \E tc \in HistoryCalls : ToolCalled(tc)

SpecHistory == InitHistory /\ [][NextHistory]_vars

\* ------------------------------------------------------ argument strings
\* One exchange in which the endpoint sends its tool calls with their
\* argument strings, some of them no JSON.
WellFormed ==
    {RawCall(1, "read_file", "{\"path\":\"a.txt\"}"),
     RawCall(1, "write_file", "{ \"path\": \"new.txt\", \"content\": \"say \\\"hi\\\"\" }"),
     RawCall(1, "list_files", ""),
     RawCall(1, "forget", "{\"index\":-12}")}

Malformed ==
    {RawCall(1, "read_file", "{\"path\":\"a.txt\""),
     RawCall(1, "write_file", "{\"path\":\"new.txt\",\"content\":\"new\",}"),
     RawCall(1, "remember", "{'fact':'tabs'}"),
     RawCall(1, "delete_file", "path=a.txt")}

ArgResponses ==
    {Response(TRUE, FALSE, TRUE, <<tc>>, "") : tc \in WellFormed \cup Malformed}
    \cup {Response(TRUE, FALSE, TRUE, <<first, [second EXCEPT !.id = 2]>>, "") :
             first \in Malformed,
             second \in {RawCall(1, "read_file", "{\"path\":\"a.txt\"}"),
                         RawCall(1, "delete_file", "path=a.txt")}}

NextArgs ==
    \/ OneAtATime /\ Send(1)
    \/ \E c \in Chats, res \in ArgResponses : iter[c] < MaxToolRounds /\ Respond(c, res)
    \/ \E c \in Chats : Respond(c, Response(TRUE, FALSE, TRUE, <<>>, "Done"))
    \/ \E c \in Chats : ExecuteTool(c)

SpecArgs == InitTools /\ [][NextArgs]_vars

\* ------------------------------------------------------ the memory tools
\* remember, recall and forget are called one after another; writing the
\* memory file may fail, and the file may be edited into something that is
\* no JSON.
MaxFacts == 3

MemoryCalls ==
    (IF Len(loadMemory(memory)) < MaxFacts
     THEN {Call(1, "remember", [Args EXCEPT !.fact = fact]) :
              fact \in {Text("tabs"), Text("pnpm"), undefined}}
     ELSE {})
    \cup {Call(1, "forget", [Args EXCEPT !.index = index]) :
             index \in {undefined} \cup {Num(k) : k \in -1..(MaxFacts + 1)}}
    \cup {Call(1, "recall", Args)}

\* memory.json is overwritten from outside
MemoryEdited ==
    /\ memory.state = "json"
    /\ memory' = CorruptMemory
    /\ UNCHANGED <<messages, autoSave, chatVars, threadVars, abortVars, overlapped, requests,
                   files, backups, changeHistory, shell, backupBeforeWrite,
                   confirmBeforeWrite, cache, now, lastTool, lastGet, indexVars, lastRequest,
                   reading, dropped, treeVars, diffing>>

NextMemory ==
    \/ \E tc \in MemoryCalls : ToolCalled(tc)
    \/ MemoryEdited

SpecMemory == InitTools /\ [][NextMemory]_vars

\* ------------------------------------------------------ thread lifecycle
\* Chats and thread lifecycle requests one after the other, stop requests at
\* any time; a request may name a thread that does not exist.
MaxThreadRequests == 2   \* thread lifecycle and stop requests per behaviour

ThreadRequested(op, id, result, a) ==
    /\ OneAtATime
    /\ lastRequest.n < MaxThreadRequests
    /\ lastRequest' = Request(op, id, result, lastRequest.n + 1)
    /\ SetAgent(a)
    /\ UNCHANGED <<autoSave, abortVars, chatVars, overlapped, requests, diskVars, reading>>

\* the stop request of the view: Agent.stop()
StopRequested ==
    /\ lastRequest.n < MaxThreadRequests
    /\ lastRequest' = Request("stop", 0, AbortTargets # {}, lastRequest.n + 1)
    /\ abort("stop", None)
    /\ UNCHANGED <<messages, threadVars, autoSave, abortController, timers, chatVars,
                   overlapped, requests, diskVars, reading>>

NextThreads ==
    \/ \E c \in Chats : OneAtATime /\ Send(c)
    \/ \E c \in Chats : iter[c] < 1 /\ Respond(c, PlainToolResponse)
    \/ \E c \in Chats, res \in EndingResponses : Respond(c, res)
    \/ \E c \in Chats : ToolDone(c)
    \/ StopRequested
    \/ \E c \in Chats : Cancelled(c)
    \/ ThreadRequested("newThread", nextThreadId, TRUE, newThread)
    \/ \E id \in 1..nextThreadId :
          ThreadRequested("loadThread", id, id \in DOMAIN threads, loadThread(id))
    \/ \E id \in 1..nextThreadId :
          ThreadRequested("deleteThread", id, id \in DOMAIN threads, deleteThread(id))
    \/ ThreadRequested("clearHistory", 0, TRUE, clearHistory)

SpecThreads == Init /\ [][NextThreads]_vars

\* ------------------------------------------------------ the file index
\* The file watcher reports created and deleted files and findFiles is called.
MaxGenerated == 51   \* files a generator writes into /ws/gen, one after the other

Generated(k) == "/ws/gen/foo-" \o ToString(k) \o ".ts"

Watched == {"/ws/foo.txt", "/ws/bar/foo2.txt", "/ws/bar/FOO.txt"}

\* fileWatcher.onDidCreate: invalidate(uri), addToIndex(uri.fsPath)
OnDidCreate(filePath) ==
    /\ Notified(filePath)
    /\ fileIndex' = addToIndex(fileIndex, filePath)
    /\ lastFind' = IndexCall("create", filePath, fileIndex, <<>>)
    /\ UNCHANGED <<files, now, lastGet, agentVars>>

\* fileWatcher.onDidDelete: invalidate(uri), removeFromIndex(uri.fsPath)
OnDidDelete(filePath) ==
    /\ Notified(filePath)
    /\ fileIndex' = removeFromIndex(fileIndex, filePath)
    /\ lastFind' = IndexCall("delete", filePath, fileIndex, <<>>)
    /\ UNCHANGED <<files, now, lastGet, agentVars>>

FindFiles(query) ==
    /\ lastFind' = IndexCall("findFiles", query, fileIndex, findFiles(fileIndex, query))
    /\ UNCHANGED <<files, cache, now, lastGet, fileIndex, agentVars, treeVars>>

Indexed(index) == UNION {Range(index[k].paths) : k \in 1..Len(index)}

\* no generator is at work: it has written none or all of its files
Quiet == \A k \in 1..MaxGenerated :
             Generated(k) \in Indexed(fileIndex) <=> Generated(1) \in Indexed(fileIndex)

NextIndex ==
    \/ \E filePath \in Watched : Quiet /\ OnDidCreate(filePath)
    \/ \E k \in 1..MaxGenerated :
          /\ k > 1 => Generated(k - 1) \in Indexed(fileIndex)
          /\ Generated(k) \notin Indexed(fileIndex)
          /\ OnDidCreate(Generated(k))
    \/ \E filePath \in Watched \cup {"/ws/a.txt"} : Quiet /\ OnDidDelete(filePath)
    \/ \E query \in {"foo", "FOO.T", "a.t"} : FindFiles(query)

SpecIndex == InitCache /\ [][NextIndex]_vars

\* ------------------------------------------------------ invalidation and the project tree
\* Entries are set, Cache.invalidate is called with a pattern, the project
\* tree is set and asked for, the clock moves and the file watcher reports
\* changed, created and deleted files.
InvalidatePattern(pattern) ==
    /\ cache' = invalidate(cache, pattern)
    /\ lastGet' = CacheCall("invalidate", pattern, null, cache, null)
    /\ UNCHANGED <<files, now, agentVars, indexVars, treeVars>>

GetProjectTree ==
    /\ lastTree' = [lastTree EXCEPT !.op = "get", !.value = getProjectTree(projectTree),
                                    !.at = now, !.notified = lastTree.since]
    /\ lastGet' = NoGet
    /\ UNCHANGED <<files, cache, now, projectTree, agentVars, indexVars>>

SetProjectTree(tree) ==
    /\ projectTree' = setProjectTree(projectTree, tree)
    /\ lastTree' = [op |-> "set", value |-> tree, at |-> now, setAt |-> now,
                    since |-> FALSE, notified |-> FALSE]
    /\ lastGet' = NoGet
    /\ UNCHANGED <<files, cache, now, agentVars, indexVars>>

TreeInstants == {30000, 30001}

NextTree ==
    \/ \E key \in {"file:a.txt", "outline:a.txt", "k"} :
          now = 1 /\ CacheSet(key, Text("v"), <<>>)
    \/ \E pattern \in {"a.txt", "file:", "K", ""} : InvalidatePattern(pattern)
    \/ GetProjectTree
    \/ \E tree \in {Text("src/"), Text("")} : SetProjectTree(tree)
    \/ Touch("/ws/a.txt")
    \/ Invalidate("/ws/a.txt")
    \/ OnDidCreate("/ws/foo.txt")
    \/ OnDidDelete("/ws/foo.txt")
    \/ \E t \in TreeInstants : Tick(t)

SpecTree == InitCache /\ [][NextTree]_vars

\* ------------------------------------------------------ the watcher and the index
\* Files are created, deleted and changed while entries of the cache and the
\* project tree are set.
NextWatch ==
    \/ \E filePath \in {"/ws/foo.txt", "/ws/bar/FOO.txt"} : OnDidCreate(filePath)
    \/ \E filePath \in {"/ws/foo.txt", "/ws/a.txt"} : OnDidDelete(filePath)
    \/ \E key \in {"file:a.txt", "outline:a.txt", "k"} : CacheSet(key, Text("v"), <<>>)
    \/ SetProjectTree(Text("src/"))
    \/ Touch("/ws/a.txt")
    \/ Invalidate("/ws/a.txt")

SpecWatch == InitCache /\ [][NextWatch]_vars

\* ------------------------------------------------------ the index and the disk
\* Files are created and deleted on the disk, and the file watcher reports
\* each of these changes as it happens.
FileCreated(filePath) ==
    /\ ~isFile(files, filePath)
    /\ files' = writeFileSync(files, filePath, Text("new"))
    /\ Notified(filePath)
    /\ fileIndex' = addToIndex(fileIndex, filePath)
    /\ lastFind' = IndexCall("create", filePath, fileIndex, <<>>)
    /\ UNCHANGED <<now, lastGet, agentVars>>

FileDeleted(filePath) ==
    /\ isFile(files, filePath)
    /\ files' = unlinkSync(files, filePath)
    /\ Notified(filePath)
    /\ fileIndex' = removeFromIndex(fileIndex, filePath)
    /\ lastFind' = IndexCall("delete", filePath, fileIndex, <<>>)
    /\ UNCHANGED <<now, lastGet, agentVars>>

OnDisk == {"/ws/.git/config", "/ws/a.txt", "/ws/big.log", "/ws/logo.png", "/ws/new.txt"}

NextWalk ==
    \/ \E filePath \in OnDisk : FileCreated(filePath)
    \/ \E filePath \in OnDisk : FileDeleted(filePath)

SpecWalk == InitCache /\ [][NextWalk]_vars

\* ------------------------------------------------------ generateDiff
\* generateDiff is called with two contents and runs its loop round by round.
GenerateDiff(oldContent, newContent, filePath) ==
    /\ diffing.pc = "idle"
    /\ diffing' = Diff("loop", split(oldContent, "\n"), split(newContent, "\n"), 0, 0,
                       <<"--- " \o filePath, "+++ " \o filePath>>, <<>>, "")
    /\ UNCHANGED <<files, cache, now, lastGet, indexVars, treeVars, messages, autoSave,
                   chatVars, threadVars, abortVars, overlapped, requests, backups,
                   changeHistory, shell, backupBeforeWrite, confirmBeforeWrite, lastTool,
                   lastRequest, reading, dropped, memory>>

DiffWhile ==
    /\ diffing.pc = "loop"
    /\ diffing.i < Len(diffing.oldLines) \/ diffing.j < Len(diffing.newLines)
    /\ diffing' = generateDiffStep(diffing)
    /\ UNCHANGED <<files, cache, now, lastGet, indexVars, treeVars, messages, autoSave,
                   chatVars, threadVars, abortVars, overlapped, requests, backups,
                   changeHistory, shell, backupBeforeWrite, confirmBeforeWrite, lastTool,
                   lastRequest, reading, dropped, memory>>

DiffReturn ==
    /\ diffing.pc = "loop"
    /\ ~(diffing.i < Len(diffing.oldLines) \/ diffing.j < Len(diffing.newLines))
    /\ diffing' = generateDiffReturn(diffing)
    /\ UNCHANGED <<files, cache, now, lastGet, indexVars, treeVars, messages, autoSave,
                   chatVars, threadVars, abortVars, overlapped, requests, backups,
                   changeHistory, shell, backupBeforeWrite, confirmBeforeWrite, lastTool,
                   lastRequest, reading, dropped, memory>>

MaxLines == 4
LongLines == 25

\* the contents of n lines, each line one letter
RECURSIVE OfLines(_)
OfLines(n) ==
    IF n = 1 THEN {"a", "b"} ELSE {c \o "\n" \o l : c \in OfLines(n - 1), l \in {"a", "b"}}

\* the content of n lines that are all the same
RECURSIVE Long(_, _)
Long(line, n) == IF n = 1 THEN line ELSE Long(line, n - 1) \o "\n" \o line

Contents == {""} \cup UNION {OfLines(n) : n \in 1..MaxLines}

NextDiff ==
    \/ \E oldContent, newContent \in Contents : GenerateDiff(oldContent, newContent, "a.txt")
    \/ \E n, m \in {LongLines - 1, LongLines} :
          GenerateDiff(Long("a", n), Long("b", m), "a.txt")
    \/ DiffWhile
    \/ DiffReturn

SpecDiff == InitCache /\ [][NextDiff]_vars

\* ====================================================================== claims
Answers(msg, tc) == msg.role = "tool" /\ msg.tool_call_id = tc.id

Assistants(j) == {l \in 1..(j - 1) : messages[l].role = "assistant"}

\* the nearest assistant message before position j (0 if there is none)
NearestAssistant(j) ==
    IF Assistants(j) = {} THEN 0
    ELSE CHOOSE l \in Assistants(j) : \A q \in Assistants(j) : q <= l

\* the transcript c built, also once the save at its exit has run
Built(c) == IF pc[c] = "done" THEN exitTranscript[c] ELSE messages

\* C1: whatever the endpoint answers, one chat() issues at most 15 LLM calls;
\* when every response carried a tool call the chat leaves its loop after
\* exactly 15 calls with exactly one 'max iterations' notification, and the
\* save it then makes stores the transcript the loop built (the user turn and
\* the 15 rounds) in the durable thread.
C1_MaxIterationsPersistsTranscript ==
    /\ [](\A c \in Chats : calls[c] <= 15)
    /\ [][\A c \in Chats :
            (pc[c] # "done" /\ pc'[c] = "done" /\ onlyTools'[c]) =>
                /\ calls'[c] = 15
                /\ log'[c]["max"] = 1
                /\ saveCalls'[c] = 1
                /\ autoSave =>
                      /\ currentThread' # NoThread
                      /\ currentThread'.id \in DOMAIN threads'
                      /\ threads'[currentThread'.id].messages = Tail(exitTranscript'[c])]_vars

\* C2: every tool-role message of the live transcript carries the id of a
\* tool call of the nearest assistant message before it, and nothing but
\* tool-role messages lies between the two.
C2_ToolResultPairing ==
    \A j \in 1..Len(messages) :
        messages[j].role = "tool" =>
            LET a == NearestAssistant(j)
            IN  /\ a # 0
                /\ \E q \in 1..Len(messages[a].tool_calls) :
                       Answers(messages[j], messages[a].tool_calls[q])
                /\ \A l \in (a + 1)..(j - 1) : messages[l].role = "tool"

\* a transcript holding an answered two-call round and an answered one-call round
C2_Witness ==
    \E j, l \in 1..Len(messages) :
        /\ messages[j].role = "assistant" /\ Len(messages[j].tool_calls) = 2
        /\ j + 2 <= Len(messages)
        /\ messages[j + 1].role = "tool" /\ messages[j + 2].role = "tool"
        /\ messages[l].role = "assistant" /\ Len(messages[l].tool_calls) = 1
        /\ l + 1 <= Len(messages)
        /\ messages[l + 1].role = "tool"

\* C3: when a chat ends on a final-content response with autoSave on, the
\* durable thread holds the conversation (the live transcript without the
\* system prompt) and the live transcript still holds it, also when there
\* was no active thread before that save.
C3_FinalContentPersisted ==
    [][\A c \in Chats :
          (log'[c]["content"] = log[c]["content"] + 1 /\ autoSave) =>
              /\ currentThread' # NoThread
              /\ currentThread'.id \in DOMAIN threads'
              /\ threads'[currentThread'.id].messages = Tail(exitTranscript'[c])
              /\ messages' = exitTranscript'[c]]_vars

\* C4: while tool call n of a round is executing, the transcript ends with
\* the round's assistant message followed by the results of calls 1..n-1 in
\* order, and while an LLM call is in flight every tool-call round of the
\* transcript has the results of all its calls, in order, right after it.
C4_ToolsInOrder ==
    /\ \A c \in Executing :
          LET n == tcIdx[c]
              a == Len(messages) - (n - 1)
          IN  /\ n \in 1..Len(pending[c])
              /\ a >= 1
              /\ messages[a].role = "assistant"
              /\ messages[a].tool_calls = pending[c]
              /\ \A q \in 1..(n - 1) : Answers(messages[a + q], pending[c][q])
    /\ InFlight # {} =>
          \A j \in 1..Len(messages) :
              LET tcs == messages[j].tool_calls
              IN  (messages[j].role = "assistant" /\ Len(tcs) > 0) =>
                      /\ j + Len(tcs) <= Len(messages)
                      /\ \A q \in 1..Len(tcs) : Answers(messages[j + q], tcs[q])

\* the second call of a two-call round is executing
C4_Witness == \E c \in Chats : pc[c] = "tool" /\ tcIdx[c] = 2 /\ Len(pending[c]) = 2

\* C5: a chat whose LLM call is cancelled emits 'stopped', makes no further
\* LLM call, returns, and (autoSave on) leaves the conversation as it stood
\* at the cancellation in the durable thread.
C5_CancelledPersists ==
    [][\A c \in Chats :
          (log'[c]["stopped"] = log[c]["stopped"] + 1) =>
              /\ pc'[c] = "done"
              /\ calls' = calls
              /\ saveCalls'[c] = saveCalls[c] + 1
              /\ autoSave =>
                    /\ currentThread' # NoThread
                    /\ currentThread'.id \in DOMAIN threads'
                    /\ threads'[currentThread'.id].messages = Tail(exitTranscript'[c])]_vars

\* C6: a chat whose LLM call fails otherwise (rejected fetch, non-2xx, error
\* field) emits the error notification and returns without running
\* saveCurrentThread: active thread and durable store are untouched and the
\* live transcript is what it was, the chat's user turn included.
C6_ErrorDoesNotPersist ==
    [][\A c \in Chats :
          (log'[c]["error"] # log[c]["error"]) =>
              /\ pc[c] = "llm" /\ pc'[c] = "done"
              /\ log'[c]["error"] = log[c]["error"] + 1
              /\ saveCalls' = saveCalls
              /\ calls' = calls
              /\ threads' = threads
              /\ currentThread' = currentThread
              /\ messages' = messages
              /\ \E j \in 1..Len(messages') :
                     messages'[j] = UserMessage(UserText(c))]_vars

\* a chat ended by an error field after at least one tool round, nothing saved
C6_Witness ==
    \E c \in Chats :
        /\ pc[c] = "done" /\ log[c]["error"] = 1 /\ saveCalls[c] = 0
        /\ calls[c] >= 2 /\ lastRes[c].error
        /\ messages = exitTranscript[c]

\* C7: a stop() reaches every LLM call in flight, and a chat stopped in
\* flight leaves only through the cancellation path; a chat executing a tool
\* is never a target of stop(), its signal is never aborted, and the step
\* that ends the execution appends the tool's result message.
C7_StopCancelsOnlyTheCall ==
    /\ [](\A c \in InFlight : c \in AbortTargets)
    /\ [](\A c \in Executing : c \notin AbortTargets /\ ~aborted[c])
    /\ [][\A c \in Chats :
            /\ (pc[c] = "llm" /\ aborted[c] /\ lastAbort.by = "stop" /\ pc'[c] # "llm") =>
                  /\ pc'[c] = "done"
                  /\ log'[c]["stopped"] = log[c]["stopped"] + 1
                  /\ calls' = calls
            /\ (pc[c] = "tool" /\ <<pc[c], tcIdx[c]>>' # <<pc[c], tcIdx[c]>>) =>
                  /\ Len(Built(c)') > Len(messages)
                  /\ Answers(Built(c)'[Len(messages) + 1], pending[c][tcIdx[c]])]_vars

\* a stop() has hit the in-flight call of a chat that already ran a tool
C7_Witness ==
    \E c \in Chats :
        /\ pc[c] = "llm" /\ aborted[c] /\ lastAbort.by = "stop"
        /\ \E j \in 1..Len(messages) : messages[j].role = "tool"

\* C8: every armed timer belongs to the LLM call in flight and aborts that
\* call's signal when it fires, a timer never aborts another call than the
\* one that armed it, and a chat whose call timed out leaves through the
\* step a stopped chat takes: 'stopped', saveCurrentThread, return.
C8_TimeoutIsCancellation ==
    /\ [](\A t \in timers :
            /\ pc[t[1]] = "llm" /\ calls[t[1]] = t[2]
            /\ abortController = t /\ t[1] \in AbortTargets)
    /\ [](lastAbort.by = "timeout" =>
            /\ lastAbort.timer = lastAbort.target
            /\ aborted[lastAbort.target[1]])
    /\ [][\A c \in Chats :
            (pc[c] = "llm" /\ aborted[c] /\ lastAbort.by = "timeout" /\ pc'[c] # "llm") =>
                /\ pc'[c] = "done"
                /\ log'[c]["stopped"] = log[c]["stopped"] + 1
                /\ saveCalls'[c] = saveCalls[c] + 1
                /\ calls' = calls]_vars

\* the timer of a chat's second or later call has fired and aborted that call
C8_Witness ==
    \E c \in Chats :
        /\ pc[c] = "llm" /\ aborted[c] /\ lastAbort.by = "timeout"
        /\ calls[c] >= 2 /\ timers = {}

SkipResponses == {res \in Responses : res.ok /\ ~res.error /\
                     (~res.msg \/ (Len(res.tool_calls) = 0 /\ res.content = ""))}

\* C9: a response without message, or with neither tool calls nor content,
\* adds nothing to the transcript and emits no content or error
\* notification; it uses up one of the 15 iterations, after which the next
\* LLM call is issued or, at the cap, the chat ends with 'max iterations'.
C9_EmptyRoundSkipped ==
    [][\A c \in Chats :
          (/\ pc[c] = "llm" /\ ~aborted[c]
           /\ lastRes'[c] \in SkipResponses
           /\ <<pc[c], calls[c]>>' # <<pc[c], calls[c]>>) =>
              /\ log'[c]["content"] = log[c]["content"]
              /\ log'[c]["error"] = log[c]["error"]
              /\ iter'[c] = iter[c] + 1
              /\ IF iter[c] + 1 < 15
                 THEN /\ messages' = messages
                      /\ pc'[c] = "llm"
                      /\ calls'[c] = calls[c] + 1
                 ELSE /\ exitTranscript'[c] = messages
                      /\ pc'[c] = "done"
                      /\ log'[c]["max"] = log[c]["max"] + 1]_vars

\* an empty response was skipped and the retry is in flight
C9_Witness ==
    \E c \in Chats :
        /\ pc[c] = "llm" /\ lastRes[c] \in SkipResponses /\ lastRes[c].msg
        /\ calls[c] >= 2

\* C10: at every moment at most one LLM call and at most one tool execution
\* is in flight on the Agent's live transcript.
C10_OneInFlight == Cardinality(InFlight) <= 1 /\ Cardinality(Executing) <= 1

\* ------------------------------------------------------ the tool executor
\* the reason of the safety check that stops a tool call, "" if none does
Violation(tc) ==
    LET filePath == resolvePath(tc.args.path)
    IN  IF tc.name \in {"read_file", "write_file", "delete_file"}
           /\ ~isPathSafe(filePath).safe
        THEN isPathSafe(filePath).reason
        ELSE IF tc.name = "read_file" /\ ~checkFileSize(files, filePath).ok
        THEN checkFileSize(files, filePath).reason
        ELSE IF tc.name = "run_command" /\ ~isCommandSafe(tc.args.cmd).safe
        THEN isCommandSafe(tc.args.cmd).reason
        ELSE ""

\* C11: a tool call stopped by a safety check (unsafe path, blocked command,
\* oversized file) changes no file, backup, change record or cache entry and
\* runs no command; its result text carries the reason and is appended to
\* the transcript as the call's tool message; the chat goes on to the next
\* call of the round or to the next LLM call.
C11_ViolationHasNoEffect ==
    [][\A c \in Chats :
          pc[c] = "tool" /\ Violation(pending[c][tcIdx[c]]) # "" =>
              LET tc == pending[c][tcIdx[c]]
              IN  /\ UNCHANGED <<files, backups, changeHistory, shell, cache>>
                  /\ includes(lastTool'.result.unit, Violation(tc))
                  /\ messages' = Append(messages, ToolResultMessage(tc, lastTool'.result))
                  /\ IF tcIdx[c] < Len(pending[c])
                     THEN pc'[c] = "tool" /\ tcIdx'[c] = tcIdx[c] + 1
                     ELSE pc'[c] = "llm" /\ calls'[c] = calls[c] + 1]_vars

\* an exchange in which a write outside the workspace and a blocked command
\* were both answered with their reason, and the next LLM call is in flight
C11_Witness ==
    /\ pc[1] = "llm"
    /\ files = InitFiles /\ shell = <<>>
    /\ \E i, j \in 1..Len(messages) :
          /\ messages[i].role = "tool" /\ messages[j].role = "tool"
          /\ messages[i].content = Error("Path is outside workspace")
          /\ messages[j].content = Text("üö´ Blocked: Blocked dangerous command pattern")

\* the last tool call was stopped by one of its safety checks
Stopped(t) ==
    \/ t.pathCheck # NotRun /\ ~t.pathCheck.safe
    \/ t.sizeCheck # NotRun /\ ~t.sizeCheck.ok
    \/ t.cmdCheck # NotRun /\ ~t.cmdCheck.safe

\* C12: the text executeTool returns for a call that a safety check stopped,
\* or that names no tool, begins with 'Error:'.
C12_FailuresBeginWithError ==
    lastTool.name # "" /\ (Stopped(lastTool) \/ lastTool.name = "frobnicate") =>
        startsWith(lastTool.result.unit, "Error:")

IsPrefix(a, b) == Len(a) <= Len(b) /\ SubSeq(b, 1, Len(a)) = a

\* C13: whenever a tool asks isPathSafe about a path that leads out of the
\* workspace root (by '..' or as an absolute path elsewhere) or into the
\* workspace's .git directory, the answer is unsafe and carries a reason.
C13_OutsideOrGitIsUnsafe ==
    lastTool.pathCheck # NotRun =>
        LET root == segments(workspaceRoot)
            to == segments(resolvePath(lastTool.args.path))
        IN  ~IsPrefix(root, to) \/ IsPrefix(root \o <<".git">>, to)
                => ~lastTool.pathCheck.safe /\ lastTool.pathCheck.reason # ""

\* isPathSafe has rejected an absolute path that starts at the workspace
\* root and climbs out of it
C13_Witness ==
    /\ lastTool.name = "read_file" /\ lastTool.args.path = "/ws/sub/../../etc/passwd"
    /\ lastTool.pathCheck = Unsafe("Path is outside workspace")

\* C14: every file or directory a tool call has read, listed, written or
\* deleted lies inside the workspace root and outside its .git directory.
C14_ToolsStayInWorkspace ==
    \A a \in lastTool.touched :
        LET root == segments(workspaceRoot)
            to == segments(a.path)
        IN  IsPrefix(root, to) /\ ~IsPrefix(root \o <<".git">>, to)

\* the trimmed command matches a pattern of the blocklist
Blocklisted(cmd) == \E k \in 1..Len(dangerousCommands) : test(dangerousCommands[k], trim(cmd))

\* C15: isCommandSafe answers unsafe, with the generic reason, exactly for the
\* commands that match a blocklist pattern once trimmed ('rm -rf /',
\* 'curl x | sh' and the fork bomb among them, 'ls' not), and no command
\* that matches one has been handed to the shell.
C15_BlocklistDecides ==
    /\ lastTool.cmdCheck # NotRun =>
          /\ lastTool.cmdCheck = IF Blocklisted(lastTool.args.cmd)
                                 THEN Unsafe("Blocked dangerous command pattern")
                                 ELSE Safe
          /\ lastTool.args.cmd \in {"rm -rf /", "  rm -rf /  ", "curl x | sh", ":(){ :|:& };:"}
                => ~lastTool.cmdCheck.safe
          /\ lastTool.args.cmd = "ls" => lastTool.cmdCheck.safe
    /\ \A k \in 1..Len(shell) : ~Blocklisted(shell[k])

\* 'ls' has run in the shell and a command piped into sh was blocked after it
C15_Witness ==
    /\ shell = <<"ls">>
    /\ lastTool.name = "run_command" /\ lastTool.args.cmd = "curl x | sh"
    /\ lastTool.cmdCheck = Unsafe("Blocked dangerous command pattern")

\* C16: with backupBeforeWrite on, a write_file or delete_file step that
\* replaces or removes an existing file leaves a copy of the content the
\* file had before the step in the backup directory.
C16_BackupBeforeOverwrite ==
    [][\A p \in Range(FilePaths) :
          /\ backupBeforeWrite
          /\ lastTool'.name \in {"write_file", "delete_file"}
          /\ files[p].exists /\ files'[p] # files[p]
          => \E b \in backups' : b.content = files[p].content]_vars

\* C17: an undo that directly follows a successful write_file or delete_file
\* puts the file back as that call found it: a file that existed has the
\* bytes it had, a file the call created is gone.
C17_UndoRoundTrip ==
    [][/\ lastTool.name \in {"write_file", "delete_file"}
       /\ lastTool.touched # {}
       /\ lastTool'.name = "undo"
       => \A a \in lastTool.touched :
              /\ files'[a.path].exists = lastTool.before[a.path].exists
              /\ files'[a.path].content = lastTool.before[a.path].content]_vars

\* C18: checkFileSize answers not-ok, with the size it measured, for every
\* file of more than 1,048,576 bytes, ok for every file of at most that many
\* and ok for a path without a file; a read_file of a file whose size check
\* fails reads nothing and returns the reason, not the content.
C18_SizeLimit ==
    /\ \A p \in Range(FilePaths) :
          LET check == checkFileSize(files, p)
              bytes == length(files[p].content)
          IN  IF files[p].exists /\ bytes > 1048576
              THEN ~check.ok /\ check.size = bytes
              ELSE check.ok
    /\ lastTool.name = "read_file" /\ lastTool.sizeCheck # NotRun /\ ~lastTool.sizeCheck.ok
          => /\ lastTool.touched = {}
             /\ lastTool.result = Error(lastTool.sizeCheck.reason)
             /\ lastTool.result # readFileSync(lastTool.before, resolvePath(lastTool.args.path))

\* a file of 1,048,576 bytes was read and returned after a file of one byte
\* more was refused
C18_Witness ==
    /\ lastTool.name = "read_file" /\ lastTool.args.path = "max.log"
    /\ lastTool.sizeCheck.ok /\ lastTool.sizeCheck.size = 1048576
    /\ lastTool.result = readFileSync(files, "/ws/max.log")
    /\ \E i \in 1..Len(messages) :
          /\ messages[i].role = "tool"
          /\ messages[i].content = Error("File too large (1.00MB > 1MB limit)")

\* ------------------------------------------------------ the cache
\* C19: setFile(p, c) of an existing file stores c with the file's
\* modification time for five minutes; a getFile(p) that finds such an entry
\* within its five minutes returns c if the file still has the modification
\* time recorded, and otherwise returns no hit and leaves the entry where it is.
C19_FileCacheRoundTrip ==
    /\ lastGet.op = "setFile" /\ isFile(files, lastGet.key) =>
          Entry(cache, fileKey(lastGet.key)) =
              [value |-> [content |-> lastGet.arg, mtime |-> files[lastGet.key].mtime],
               timestamp |-> now, ttl |-> 300000]
    /\ lastGet.op = "getFile" /\ lastGet.entry # null
          /\ now - lastGet.entry.timestamp <= 300000 =>
          IF isFile(files, lastGet.key)
             /\ files[lastGet.key].mtime = lastGet.entry.value.mtime
          THEN lastGet.value = lastGet.entry.value.content
          ELSE /\ lastGet.value = null
               /\ Entry(cache, fileKey(lastGet.key)) = lastGet.entry

\* a getFile found the entry of a file rewritten since it was cached,
\* returned no hit and left the entry in the map
C19_Witness ==
    /\ lastGet.op = "getFile" /\ lastGet.key = "/ws/a.txt"
    /\ lastGet.entry # null
    /\ lastGet.entry.value.mtime # files["/ws/a.txt"].mtime
    /\ lastGet.value = null
    /\ Entry(cache, "file:a.txt") = lastGet.entry

\* C20: set(key, v, t) stores v with the time of the call and t, or 60000 if
\* t is left out; a get(key) that finds the entry returns v and keeps the
\* entry while less than t milliseconds have passed since the set, and
\* returns null and removes the entry once more than t have passed.
C20_CacheTtl ==
    /\ lastGet.op = "set" =>
          Entry(cache, lastGet.key) =
              [value |-> lastGet.arg.value, timestamp |-> now,
               ttl |-> IF lastGet.arg.ttlMs = <<>> THEN 60000 ELSE lastGet.arg.ttlMs[1]]
    /\ lastGet.op = "get" /\ lastGet.entry # null =>
          LET elapsed == now - lastGet.entry.timestamp
          IN  /\ elapsed < lastGet.entry.ttl =>
                    lastGet.value = lastGet.entry.value
                    /\ Entry(cache, lastGet.key) = lastGet.entry
              /\ elapsed > lastGet.entry.ttl =>
                    lastGet.value = null /\ lastGet.key \notin DOMAIN cache

\* an entry stored without a TTL was looked up 60001 ms later, found
\* expired and removed
C20_Witness ==
    /\ lastGet.op = "get" /\ lastGet.entry # null
    /\ lastGet.entry.ttl = 60000 /\ now - lastGet.entry.timestamp = 60001
    /\ lastGet.value = null /\ "k" \notin DOMAIN cache

\* ------------------------------------------------------ the file index
\* where the path lies in the index: the position of its key in the Map and
\* its position among the paths of that key
Place(index, filePath) ==
    LET k == CHOOSE n \in 1..Len(index) : filePath \in Range(index[n].paths)
    IN  <<k, CHOOSE i \in 1..Len(index[k].paths) : index[k].paths[i] = filePath>>

Before(a, b) == a[1] < b[1] \/ (a[1] = b[1] /\ a[2] < b[2])

\* what findFiles returned is at most 50 relative paths of indexed files
\* whose name satisfies Hit, in the order of the index, and all of them if
\* they are fewer than 50
FoundBy(Hit(_, _)) ==
    With({[rel |-> relative(workspaceRoot, p), place |-> Place(lastFind.index, p)] :
             p \in {q \in Indexed(lastFind.index) : Hit(q, lastFind.arg)}}, LAMBDA hits :
        LET results == lastFind.results
            at(r) == CHOOSE f \in hits : f.rel = r
        IN  /\ Len(results) <= 50
            /\ \A i \in 1..Len(results) : \E f \in hits : f.rel = results[i]
            /\ \A i \in 1..(Len(results) - 1) :
                   Before(at(results[i]).place, at(results[i + 1]).place)
            /\ Len(results) < 50 =>
                   \A f \in hits : \E i \in 1..Len(results) : results[i] = f.rel)

\* a path enters the index by a creation notification for it only, and is
\* out of the index after a deletion notification for it
IndexFollowsWatcher ==
    /\ [](lastFind.op = "delete" => lastFind.arg \notin Indexed(fileIndex))
    /\ [][\A p \in Indexed(fileIndex') \ Indexed(fileIndex) :
             lastFind'.op = "create" /\ lastFind'.arg = p]_vars

\* C21 as stated: findFiles(query) returns at most 50 workspace-relative
\* paths of indexed files whose basename contains the lower-cased query, in
\* the order of the index, and a path reported deleted is not returned again
\* until it is reported created.
C21_BasenameContainsLowerQuery ==
    /\ [](lastFind.op = "findFiles" =>
             /\ lastFind.index = fileIndex
             /\ FoundBy(LAMBDA p, query : includes(basename(p), lowerCase(query))))
    /\ IndexFollowsWatcher

\* C21, amended: findFiles(query) returns at most 50 workspace-relative paths
\* of indexed files whose lower-cased basename contains the lower-cased
\* query, in the order of the index (all of them if fewer than 50), and a
\* path reported deleted is not returned again until it is reported created.
C21_FindFiles ==
    /\ [](lastFind.op = "findFiles" =>
             /\ lastFind.index = fileIndex
             /\ FoundBy(LAMBDA p, query : includes(lowerCase(basename(p)), lowerCase(query))))
    /\ IndexFollowsWatcher

\* findFiles('foo') returned 50 of more than 50 indexed files with foo in
\* their name, bar/foo2.txt and the upper-case bar/FOO.txt among them, while
\* foo.txt is not in the index
C21_Witness ==
    /\ lastFind.op = "findFiles" /\ lastFind.arg = "foo"
    /\ Len(lastFind.results) = 50
    /\ Cardinality(Indexed(fileIndex)) > 54
    /\ "/ws/foo.txt" \notin Indexed(fileIndex)
    /\ lastFind.results[1] = "bar/foo2.txt" /\ lastFind.results[2] = "bar/FOO.txt"

\* ------------------------------------------------------ thread lifecycle
\* C22: the live transcript always starts with the system prompt and holds
\* no other system message, no persisted thread holds a system message, and
\* a loadThread(id) that succeeds leaves the live transcript as the system
\* prompt followed by exactly the persisted messages of thread id.
C22_OneSystemPrompt ==
    /\ [](/\ Len(messages) >= 1
          /\ messages[1] = SystemMessage
          /\ \A j \in 2..Len(messages) : messages[j].role # "system"
          /\ \A id \in DOMAIN threads : \A j \in 1..Len(threads[id].messages) :
                 threads[id].messages[j].role # "system")
    /\ [][lastRequest'.n # lastRequest.n /\ lastRequest'.op = "loadThread"
            /\ lastRequest'.result
            => /\ lastRequest'.id \in DOMAIN threads
               /\ messages' = <<SystemMessage>> \o threads[lastRequest'.id].messages]_vars

\* a thread that holds a conversation was loaded after the transcript had
\* been cleared
C22_Witness ==
    /\ lastRequest.op = "loadThread" /\ lastRequest.result /\ lastRequest.n = 2
    /\ Len(threads[lastRequest.id].messages) >= 2
    /\ messages = <<SystemMessage>> \o threads[lastRequest.id].messages

\* C23: deleteThread(id) of the active thread leaves no active thread, the
\* live transcript reset to the system prompt and the presentation layer
\* told null; deleteThread(id) of any other id leaves the active thread and
\* the live transcript as they were; loadThread(id) of an id without a
\* stored thread returns false and changes nothing.
C23_DeleteAndFailedLoad ==
    [][lastRequest'.n # lastRequest.n =>
          LET id == lastRequest'.id
              active == currentThread # NoThread /\ currentThread.id = id
          IN  /\ lastRequest'.op = "deleteThread" /\ active =>
                     /\ currentThread' = NoThread
                     /\ messages' = <<SystemMessage>>
                     /\ threadChanged' = 0
                     /\ id \notin DOMAIN threads'
              /\ lastRequest'.op = "deleteThread" /\ ~active =>
                     /\ currentThread' = currentThread
                     /\ messages' = messages
                     /\ threadChanged' = threadChanged
                     /\ id \notin DOMAIN threads'
              /\ lastRequest'.op = "loadThread" /\ id \notin DOMAIN threads =>
                     /\ ~lastRequest'.result
                     /\ UNCHANGED <<messages, currentThread, threads, nextThreadId,
                                    threadChanged>>]_vars

\* the thread a chat had saved and made the active one was deleted
C23_Witness ==
    /\ lastRequest.op = "deleteThread" /\ lastRequest.result /\ lastRequest.n = 1
    /\ \E c \in Chats : pc[c] = "done" /\ saveCalls[c] = 1 /\ Len(exitTranscript[c]) >= 3
    /\ currentThread = NoThread /\ messages = <<SystemMessage>> /\ threadChanged = 0
    /\ lastRequest.id \notin DOMAIN threads

\* C24: with autoSave off, a chat that ends (final content, cancellation,
\* iteration cap or error) writes nothing to the durable thread store and
\* leaves the active thread as it was, none included; the conversation stays
\* in the live transcript.
C24_NoAutoSaveNoPersistence ==
    [][\A c \in Chats :
          pc[c] # "done" /\ pc'[c] = "done" /\ ~autoSave =>
              /\ UNCHANGED <<threads, currentThread, nextThreadId, threadChanged>>
              /\ messages' = exitTranscript'[c]
              /\ \E j \in 1..Len(messages') : messages'[j] = UserMessage(UserText(c))]_vars

\* with autoSave off a chat has run into the iteration cap: its one call of
\* saveCurrentThread stored nothing and made no thread the active one
C24_Witness ==
    \E c \in Chats :
        /\ pc[c] = "done" /\ log[c]["max"] = 1 /\ saveCalls[c] = 1 /\ requests = 1
        /\ ~autoSave /\ threads = <<>> /\ currentThread = NoThread /\ threadChanged = -1
        /\ messages = exitTranscript[c] /\ Len(messages) > 15

C26_TokenPerCall ==
    /\ [][lastRequest'.n # lastRequest.n /\ lastRequest'.op = "stop" =>
            /\ lastRequest'.result = (InFlight # {})
            /\ \A c \in Chats :
                   aborted'[c] = (aborted[c] \/ pc[c] = "llm")
            /\ UNCHANGED <<messages, pc, iter, calls, pending, tcIdx, log, threads,
                           currentThread>>]_vars
    /\ [][\A c \in Chats :
            /\ pc[c] = "tool" /\ pc'[c] # "tool" =>
                   /\ pc'[c] = "llm" /\ calls'[c] = calls[c] + 1
                   /\ abortController' = <<c, calls'[c]>>
                   /\ ~aborted'[c]
            /\ log'[c]["stopped"] # log[c]["stopped"] =>
                   /\ pc[c] = "llm" /\ aborted[c]
                   /\ lastAbort.target = <<c, calls[c]>>]_vars
    /\ [](\A c \in Chats : aborted[c] => pc[c] = "llm")

\* a stop() was handled while the chat executed a tool; the chat went on to
\* its second LLM call and ended with the final answer
C26_Witness ==
    /\ lastRequest.op = "stop" /\ ~lastRequest.result /\ lastRequest.n = 1
    /\ lastRequest.during[1] = "tool"
    /\ pc[1] = "done" /\ calls[1] = 2 /\ log[1]["content"] = 1 /\ log[1]["stopped"] = 0

\* ------------------------------------------------------ read_file and the disk
\* C27: a read_file that returns a file's content returns the content the
\* file had on disk when the call began, whatever was cached: a call that
\* begins after the file was rewritten returns the new content.
C27_ReadSeesDisk ==
    lastTool.name = "read_file" /\ lastTool.touched # {} =>
        lastTool.result = readFileSync(lastTool.before, resolvePath(lastTool.args.path))

\* ------------------------------------------------------ the change history
Same(fs, gs) ==
    \A p \in Range(FilePaths) : fs[p].exists = gs[p].exists /\ fs[p].content = gs[p].content

\* C28: when the undos have emptied a history that never dropped an entry,
\* every file exists or not, and holds the content, as before the first
\* write or delete; an undo on the empty history fails with "No changes to
\* undo" and changes no file.
C28_UndoRestores ==
    changeHistory = <<>> /\ dropped = 0 => Same(files, InitFiles)

\* C29: the change history never holds more than maxHistorySize entries; a
\* write_file or delete_file that succeeds appends exactly one entry, of its
\* path and its contents, to a history that is not full, and on a full
\* history drops the oldest entry and keeps the others in their order; a
\* call that fails or is cancelled leaves the history as it is.
C29_HistoryBounded ==
    [][/\ Len(changeHistory') <= maxHistorySize
       /\ lastTool'.name \in {"write_file", "delete_file"} =>
              IF startsWith(lastTool'.result.unit, "OK ")
              THEN /\ changeHistory' # <<>>
                   /\ \E e \in {changeHistory'[Len(changeHistory')]} :
                         /\ e.path = resolvePath(lastTool'.args.path)
                         /\ e.newContent = IF lastTool'.name = "write_file"
                                           THEN lastTool'.args.content ELSE Text("")
                         /\ changeHistory' =
                                (IF Len(changeHistory) < maxHistorySize THEN changeHistory
                                 ELSE Tail(changeHistory)) \o <<e>>
              ELSE changeHistory' = changeHistory]_vars

\* a full history has dropped its first entry: it holds the 2nd to the 51st change
C29_Witness ==
    /\ dropped = 1
    /\ Len(changeHistory) = maxHistorySize
    /\ changeHistory[1].newContent = Text("v2")
    /\ changeHistory[maxHistorySize].newContent = Text("v51")

\* C30: confirmWrite() is called only when confirmBeforeWrite is on; with the
\* option on, a write_file that changes a file, the backup directory or the
\* history was answered "Apply"; any other answer leaves the files, the
\* backup directory and the history as they were and the tool returns
\* "Write cancelled by user".
C30_WritesAreConfirmed ==
    [][/\ lastTool'.confirm # "" => confirmBeforeWrite /\ lastTool'.name = "write_file"
       /\ /\ confirmBeforeWrite
          /\ lastTool'.name = "write_file"
          /\ files' # files \/ backups' # backups \/ changeHistory' # changeHistory
          => lastTool'.confirm = "Apply"
       /\ lastTool'.confirm \notin {"", "Apply"} =>
              /\ files' = files
              /\ backups' = backups
              /\ changeHistory' = changeHistory
              /\ lastTool'.result = Text("Write cancelled by user")]_vars

\* after an approved write, a write to an existing file was cancelled
C30_Witness ==
    /\ confirmBeforeWrite
    /\ backupBeforeWrite
    /\ changeHistory # <<>>
    /\ lastTool.name = "write_file"
    /\ lastTool.confirm = "Cancel"
    /\ lastTool.result = Text("Write cancelled by user")
    /\ isFile(files, resolvePath(lastTool.args.path))
\* ------------------------------------------------------ the memory tools
\* C31: a failure to read or write the memory file never surfaces: remember
\* never returns an error text, and forget returns one only for an invalid
\* index.
C31_StoreFailureNeverSurfaces ==
    /\ lastTool.name = "remember" => ~startsWith(lastTool.result.unit, "Error: ")
    /\ lastTool.name = "forget" /\ startsWith(lastTool.result.unit, "Error: ")
       => startsWith(lastTool.result.unit, "Error: Invalid index")

\* C37: the fact list of the memory file holds no fact twice.
C37_NoFactTwice ==
    \A i, j \in 1..Len(loadMemory(memory)) :
        i < j => loadMemory(memory)[i] # loadMemory(memory)[j]

\* C38: a forget whose write of the memory file does not fail removes the
\* index-th fact, counted from 1, and keeps the others in their order when
\* 1 <= index <= n; for any other index it returns "Error: Invalid index"
\* and leaves the memory as it is.
C38_ForgetIsOneBased ==
    [][~MemoryEdited /\ lastTool'.name = "forget" /\ lastTool'.args.index # undefined
       /\ ~includes(lastTool'.result.unit, "permission denied")
       => LET index == lastTool'.args.index.num
              facts == loadMemory(memory)
          IN  IF index >= 1 /\ index <= Len(facts)
              THEN /\ loadMemory(memory') = SubSeq(facts, 1, index - 1)
                                               \o SubSeq(facts, index + 1, Len(facts))
                   /\ lastTool'.result = Text("OK Forgot item " \o ToString(index))
              ELSE /\ memory' = memory
                   /\ startsWith(lastTool'.result.unit, "Error: Invalid index")]_vars
\* ------------------------------------------------------ argument strings
\* C32: a tool call whose argument string is no JSON is executed under its
\* name with the empty arguments; what it returns is appended as the tool
\* message of the call's id, and the round goes on with the next call, or
\* with the next request when the call was the last one.
C32_MalformedArgumentsRun ==
    [][\A c \in Chats :
          pc[c] = "tool" /\ messages' # messages
          /\ RawCall(1, pending[c][tcIdx[c]].name, pending[c][tcIdx[c]].arguments)
                 \in Malformed
          => /\ lastTool'.name = pending[c][tcIdx[c]].name
             /\ lastTool'.args = Args
             /\ messages' = AppendToolResult(messages, pending[c][tcIdx[c]],
                                             lastTool'.result)
             /\ IF tcIdx[c] < Len(pending[c])
                THEN pc'[c] = "tool" /\ tcIdx'[c] = tcIdx[c] + 1
                ELSE pc'[c] = "llm" /\ iter'[c] = iter[c] + 1]_vars

\* the first call of a round had its argument string cut short and was run;
\* the second call is next
C32_Witness ==
    /\ pc[1] = "tool"
    /\ tcIdx[1] = 2
    /\ pending[1][1].arguments = "{\"path\":\"a.txt\""
    /\ lastTool.name = "read_file"
    /\ lastTool.args = Args
    /\ messages[Len(messages)] = ToolResultMessage(pending[1][1], lastTool.result)
    /\ messages[Len(messages)].tool_call_id = 1
\* C33: invalidate(s) removes from the cache exactly the entries whose key
\* contains s as a substring and leaves every other entry, the project-tree
\* slot and the file index as they were.
C33_InvalidateRemovesBySubstring ==
    [][\A pattern \in {"a.txt", "file:", "K", ""} :
          InvalidatePattern(pattern) =>
             /\ DOMAIN cache' = {key \in DOMAIN cache : ~includes(key, pattern)}
             /\ \A key \in DOMAIN cache' : cache'[key] = cache[key]
             /\ projectTree' = projectTree
             /\ fileIndex' = fileIndex]_vars

\* invalidate("a.txt") took both entries of the file and left the third
C33_Witness ==
    /\ lastGet.op = "invalidate"
    /\ lastGet.key = "a.txt"
    /\ DOMAIN lastGet.entry = {"file:a.txt", "outline:a.txt", "k"}
    /\ DOMAIN cache = {"k"}
    /\ projectTree.timestamp # 0

\* C34: getProjectTree answers with the tree exactly when a tree was set less
\* than 30 seconds before and the file watcher reported no change, creation
\* or deletion since; the answer is then the tree set last, and before the
\* first setProjectTree there is no answer.
C34_TreeHitIsFreshAndUnnotified ==
    lastTree.op = "get" =>
       /\ lastTree.value # null <=>
              /\ lastTree.setAt # 0
              /\ lastTree.at - lastTree.setAt < 30000
              /\ ~lastTree.notified
       /\ lastTree.value # null => lastTree.value = projectTree.tree
       /\ lastTree.setAt = 0 => lastTree.value = null

\* a tree set a moment ago is not returned because a file was created
C34_Witness ==
    /\ lastTree.op = "get"
    /\ lastTree.value = null
    /\ lastTree.setAt # 0
    /\ lastTree.at - lastTree.setAt < 30000
    /\ lastTree.notified
    /\ lastFind.op = "create"

\* C35: whatever the file watcher has reported, every key of the index is the
\* lower-cased basename of each path in its list, no key occurs twice, no
\* list is empty and none holds a path twice; a creation adds the path, a
\* deletion removes it, and a change removes the file: and outline: entries
\* of the path from the cache and invalidates the project tree, leaving the
\* other entries and the index as they were.
C35_IndexMaintained ==
    /\ [](\A k \in 1..Len(fileIndex) :
            /\ fileIndex[k].paths # <<>>
            /\ \A i \in 1..Len(fileIndex[k].paths) :
                  /\ fileIndex[k].name = lowerCase(basename(fileIndex[k].paths[i]))
                  /\ \A j \in 1..Len(fileIndex[k].paths) :
                        fileIndex[k].paths[j] = fileIndex[k].paths[i] => j = i
            /\ \A l \in 1..Len(fileIndex) : fileIndex[l].name = fileIndex[k].name => l = k)
    /\ [][\A filePath \in {"/ws/foo.txt", "/ws/bar/FOO.txt", "/ws/a.txt"} :
            /\ OnDidCreate(filePath) =>
                  Indexed(fileIndex') = Indexed(fileIndex) \cup {filePath}
            /\ OnDidDelete(filePath) =>
                  Indexed(fileIndex') = Indexed(fileIndex) \ {filePath}
            /\ (filePath = "/ws/a.txt" /\ Invalidate(filePath)) =>
                  /\ fileIndex' = fileIndex
                  /\ DOMAIN cache' = DOMAIN cache \ {"file:" \o relative(workspaceRoot, filePath),
                                                     "outline:" \o relative(workspaceRoot, filePath)}
                  /\ \A key \in DOMAIN cache' : cache'[key] = cache[key]
                  /\ getProjectTree(projectTree') = null]_vars

\* one key holds two paths, and a change of a.txt was reported after the tree
\* and the entries of the cache were set
C35_Witness ==
    /\ \E k \in 1..Len(fileIndex) : Len(fileIndex[k].paths) = 2
    /\ lastTree.op = "set"
    /\ lastTree.since
    /\ files["/ws/a.txt"] # InitFiles["/ws/a.txt"]
    /\ DOMAIN cache = {"k"}

\* C36: while the file watcher reports every creation and deletion of a file,
\* the paths in the index are the paths the walk made at start-up would
\* index on the disk as it is now.
C36_IndexEqualsWalk == Indexed(fileIndex) = Indexed(buildFileIndex(files))

Changed(line) == startsWith(line, "+") \/ startsWith(line, "-")

\* C39: every round of the loop of generateDiff consumes at least one old or
\* new line, at most three of either, and none beyond the end, so the loop
\* ends; the string returned has at most 50 lines, followed by the one line
\* '... (truncated)' exactly when the filter kept more than 50 lines; and an
\* unchanged line is kept only if a changed line is at most two lines away.
C39_DiffTerminatesAndIsCapped ==
    /\ [](diffing.i <= Len(diffing.oldLines) /\ diffing.j <= Len(diffing.newLines))
    /\ [][DiffWhile =>
            /\ diffing'.i + diffing'.j > diffing.i + diffing.j
            /\ diffing'.i - diffing.i \in 0..3
            /\ diffing'.j - diffing.j \in 0..3]_vars
    /\ [](diffing.pc = "returned" =>
            LET lines == split(diffing.out, "\n")
                kept == diffing.kept
            IN  /\ Len(kept) <= 50 =>
                      lines = [k \in 1..Len(kept) |-> diffing.diff[kept[k] + 1]]
                /\ Len(kept) > 50 =>
                      lines = [k \in 1..50 |-> diffing.diff[kept[k] + 1]] \o
                              <<"... (truncated)">>
                /\ \A k \in 1..Len(kept) :
                      (kept[k] >= 2 /\ ~Changed(diffing.diff[kept[k] + 1])) =>
                          \E p \in 2..(Len(diffing.diff) - 1) :
                              /\ p - kept[k] \in -2..2
                              /\ Changed(diffing.diff[p + 1]))

\* the filter kept more than 50 lines, and 50 of them and the marker came back
C39_Witness ==
    /\ diffing.pc = "returned"
    /\ Len(diffing.kept) > 50
    /\ Len(split(diffing.out, "\n")) = 51

====
